---- MODULE Spec2Model ----
(***************************************************************************)
(* auto-dns: reconciliation of Route53 A records with the detected public  *)
(* IPv4 address.  The model follows src/src/main.rs (main, run_update,     *)
(* run_continuous), src/src/ip.rs (IpDetector) and src/src/dns.rs          *)
(* (DnsUpdater).  Strings the code parses or formats are sequences of      *)
(* one-character strings; an Ipv4Addr is its four octets.                  *)
(***************************************************************************)
EXTENDS Integers, Sequences, FiniteSets, TLC

\* ------------------------------------------------------------------------
\* Bounds of the model
\* ------------------------------------------------------------------------

\* largest number of configured records ([[records]] tables of the config)
MaxRecords == 2

\* ------------------------------------------------------------------------
\* Text helpers: str::trim, str::trim_end_matches, Ipv4Addr::from_str,
\* Ipv4Addr's Display
\* ------------------------------------------------------------------------

Digits == <<"0", "1", "2", "3", "4", "5", "6", "7", "8", "9">>

IsDigit(c) == \E i \in 1..10 : Digits[i] = c

DigitVal(c) == (CHOOSE i \in 1..10 : Digits[i] = c) - 1

IsWhitespace(c) == c \in {" ", "\n", "\t", "\r"}

\* str::trim: drop leading and trailing whitespace
RECURSIVE TrimStart(_)
TrimStart(s) ==
    IF s # <<>> /\ IsWhitespace(Head(s)) THEN TrimStart(Tail(s)) ELSE s

RECURSIVE TrimEnd(_)
TrimEnd(s) ==
    IF s # <<>> /\ IsWhitespace(s[Len(s)])
    THEN TrimEnd(SubSeq(s, 1, Len(s) - 1))
    ELSE s

Trim(s) == TrimEnd(TrimStart(s))

\* str::trim_end_matches('.'): drop every trailing dot
RECURSIVE TrimEndDots(_)
TrimEndDots(s) ==
    IF s # <<>> /\ s[Len(s)] = "."
    THEN TrimEndDots(SubSeq(s, 1, Len(s) - 1))
    ELSE s

EndsWithDot(s) == s # <<>> /\ s[Len(s)] = "."

\* the value of an absent address (Err arm of a Result<Ipv4Addr>)
NoIp == <<>>

\* number of leading decimal digits of s
RECURSIVE DigitRun(_)
DigitRun(s) ==
    IF s # <<>> /\ IsDigit(Head(s)) THEN 1 + DigitRun(Tail(s)) ELSE 0

RECURSIVE DecValue(_, _)
DecValue(s, acc) ==
    IF s = <<>> THEN acc ELSE DecValue(Tail(s), 10 * acc + DigitVal(Head(s)))

\* one octet: 1 to 3 digits, no zero prefix on a multi-digit number, <= 255
OctetOk(ds) ==
    /\ Len(ds) \in 1..3
    /\ (Len(ds) > 1 => ds[1] # "0")
    /\ DecValue(ds, 0) <= 255

\* Ipv4Addr::from_str: exactly four octets separated by '.', nothing else.
\* The result is the address, or NoIp when the text is not an IPv4 literal.
RECURSIVE ParseOctets(_, _)
ParseOctets(s, acc) ==
    LET n  == DigitRun(s)
        ds == SubSeq(s, 1, n)
        rest == SubSeq(s, n + 1, Len(s))
    IN  IF ~OctetOk(ds) THEN NoIp
        ELSE LET acc2 == Append(acc, DecValue(ds, 0))
             IN  IF Len(acc2) = 4
                 THEN (IF rest = <<>> THEN acc2 ELSE NoIp)
                 ELSE IF rest # <<>> /\ Head(rest) = "."
                      THEN ParseOctets(Tail(rest), acc2)
                      ELSE NoIp

ParseIpv4(s) == ParseOctets(s, <<>>)

\* decimal text of an octet
DecStr(n) ==
    IF n >= 100 THEN <<Digits[(n \div 100) + 1], Digits[((n \div 10) % 10) + 1], Digits[(n % 10) + 1]>>
    ELSE IF n >= 10 THEN <<Digits[(n \div 10) + 1], Digits[(n % 10) + 1]>>
    ELSE <<Digits[n + 1]>>

\* Display for Ipv4Addr: "a.b.c.d"
IpToString(ip) ==
    DecStr(ip[1]) \o <<".">> \o DecStr(ip[2]) \o <<".">> \o DecStr(ip[3]) \o <<".">> \o DecStr(ip[4])

\* ------------------------------------------------------------------------
\* Results (anyhow::Result): ok, the value, and the error text
\* ------------------------------------------------------------------------

\* an anyhow error: the context message, the record name and zone the
\* message is formatted with, and the underlying cause
ErrV(msg, name, zone, cause) == [msg |-> msg, name |-> name, zone |-> zone, cause |-> cause]

NoErr == ErrV("none", <<>>, "", "none")

Ok(v) == [ok |-> TRUE, val |-> v, err |-> NoErr]

Err(e) == [ok |-> FALSE, val |-> NoIp, err |-> e]

\* a Result that does not exist yet (the call has not returned)
NoResult == [ok |-> FALSE, val |-> NoIp, err |-> ErrV("pending", <<>>, "", "none")]

\* ------------------------------------------------------------------------
\* Inputs: the public-IP services, their possible responses, the
\* configuration and the hosted zones
\* ------------------------------------------------------------------------

\* IpDetector::new: the ordered list of services
Services ==
    << "https://api.ipify.org",
       "https://icanhazip.com",
       "https://ifconfig.me/ip",
       "https://checkip.amazonaws.com",
       "https://ipecho.net/plain" >>

Ip1 == <<10, 0, 0, 1>>
Ip2 == <<203, 0, 113, 5>>

\* what one HTTP GET can produce: the request fails (sent = FALSE), or a
\* status and a body arrive
HttpResponses ==
    { [sent |-> FALSE, status |-> 0,   body |-> <<>>],
      [sent |-> TRUE,  status |-> 500, body |-> <<"1", "0", ".", "0", ".", "0", ".", "1">>],
      [sent |-> TRUE,  status |-> 200, body |-> <<"1", "0", ".", "0", ".", "0", ".", "0", "1">>],
      [sent |-> TRUE,  status |-> 200, body |-> <<" ", "1", "0", ".", "0", ".", "0", ".", "1", "\n">>],
      [sent |-> TRUE,  status |-> 200, body |-> <<"2", "0", "3", ".", "0", ".", "1", "1", "3", ".", "5">>] }

\* the records a configuration is drawn from (name, hosted_zone_id, ttl)
RecordPool ==
    << [name |-> <<"a", ".", "e", "x">>,      hosted_zone_id |-> "Z1", ttl |-> 300],
       [name |-> <<"b", ".", "e", "x", ".">>, hosted_zone_id |-> "Z1", ttl |-> 60],
       [name |-> <<"c", ".", "e", "x">>,      hosted_zone_id |-> "Z2", ttl |-> 120] >>

Configs == { SubSeq(RecordPool, 1, n) : n \in 1..MaxRecords }

\* the flags Cli declares (main.rs:25-39); --config and --interval take values
KnownFlags == {"--once", "--verbose", "--skip-systemd-setup"}

\* the flags a command line of the model may carry
ArgSets ==
    { {}, {"--once"}, {"--no-aws"}, {"--once", "--no-aws"},
      {"--write-config", "--once"}, {"--write-config", "--no-aws"} }

ZoneIds == { RecordPool[i].hosted_zone_id : i \in 1..Len(RecordPool) }

RRSet(n, t, ttl, vals) == [name |-> n, type |-> t, ttl |-> ttl, values |-> vals]

\* record sets a hosted zone may hold when the program starts
InitListings ==
    { <<>>,
      << RRSet(<<"a", ".", "e", "x", ".">>, "A", 300, << IpToString(Ip1) >>),
         RRSet(<<"b", ".", "e", "x", ".">>, "A", 60,  << IpToString(Ip1) >>),
         RRSet(<<"c", ".", "e", "x", ".">>, "A", 120, << IpToString(Ip2) >>) >>,
      << RRSet(<<"a", ".", "e", "x", ".">>, "TXT", 300, << <<"v">> >>),
         RRSet(<<"a", ".", "e", "x", ".">>, "A", 30, << IpToString(Ip2), IpToString(Ip1) >>),
         RRSet(<<"b", ".", "e", "x", ".">>, "A", 60, << <<"1", "0", ".", "0", ".", "0">> >>) >>,
      << RRSet(<<"a", ".", "e", "x", ".">>, "A", 300, <<>>),
         RRSet(<<"c", ".", "e", "x", ".">>, "A", 120, << <<"x">> >>) >> }

\* ------------------------------------------------------------------------
\* IpDetector (src/src/ip.rs)
\* ------------------------------------------------------------------------

\* variant: the status of the response is not looked at
FetchIpFromService_AnyStatus(url, resp) ==
    IF ~resp.sent
    THEN Err(ErrV("Failed to make request to", <<>>, url, "send"))
    ELSE LET ip_str == Trim(resp.body)
             ip == ParseIpv4(ip_str)
         IN  IF ip = NoIp
             THEN Err(ErrV("Invalid IP address", ip_str, url, "parse"))
             ELSE Ok(ip)

\* fetch_ip_from_service: the request must be answered, the status must be a
\* success (2xx), and the trimmed body must parse as an IPv4 address
FetchIpFromService(url, resp) ==
    IF ~resp.sent
    THEN Err(ErrV("Failed to make request to", <<>>, url, "send"))
    ELSE IF ~(resp.status \in 200..299)
    THEN Err(ErrV("HTTP error", <<>>, url, "status"))
    ELSE LET ip_str == Trim(resp.body)
             ip == ParseIpv4(ip_str)
         IN  IF ip = NoIp
             THEN Err(ErrV("Invalid IP address", ip_str, url, "parse"))
             ELSE Ok(ip)

\* variant: a success does not end the loop, the last service decides
GetPublicIpStep_NoShortCircuit(i, r) ==
    IF i < Len(Services)
    THEN [done |-> FALSE, res |-> NoResult, next |-> i + 1]
    ELSE IF r.ok
    THEN [done |-> TRUE, res |-> r, next |-> i]
    ELSE [done |-> TRUE,
          res |-> Err(ErrV("Failed to detect public IP from any service", <<>>, "", "none")),
          next |-> i]

\* variant: a failed service is tried again before the loop moves on
GetPublicIpStep_Retry(i, r) ==
    IF r.ok
    THEN [done |-> TRUE, res |-> r, next |-> i]
    ELSE [done |-> FALSE, res |-> NoResult, next |-> i]

\* get_public_ip, one iteration of the loop over the services: i is the index
\* of the service just tried and r what fetch_ip_from_service returned.
\* done: the call returns res; otherwise the loop goes on with service next.
GetPublicIpStep(i, r) ==
    IF r.ok
    THEN [done |-> TRUE, res |-> r, next |-> i]
    ELSE IF i < Len(Services)
    THEN [done |-> FALSE, res |-> NoResult, next |-> i + 1]
    ELSE [done |-> TRUE,
          res |-> Err(ErrV("Failed to detect public IP from any service", <<>>, "", "none")),
          next |-> i]

\* ------------------------------------------------------------------------
\* The provider (Route53) and DnsUpdater (src/src/dns.rs)
\* ------------------------------------------------------------------------

\* list_resource_record_sets returns at most this many record sets per call
MaxItems == 300

Min(a, b) == IF a < b THEN a ELSE b

\* the response of one list_resource_record_sets call: the first page
ListResourceRecordSets(listing) == SubSeq(listing, 1, Min(Len(listing), MaxItems))

\* variant: the type of the record set is not compared
ScanRecordSets_AnyType(sets, record_name) ==
    LET returns == { i \in 1..Len(sets) :
                       /\ TrimEndDots(sets[i].name) = TrimEndDots(record_name)
                       /\ sets[i].values # <<>> }
    IN  IF returns = {}
        THEN Err(ErrV("No A record found for", record_name, "", "none"))
        ELSE LET first == CHOOSE i \in returns : \A j \in returns : i <= j
                 value == sets[first].values[1]
                 ip == ParseIpv4(value)
             IN  IF ip = NoIp
                 THEN Err(ErrV("Invalid IP in DNS record", value, "", "parse"))
                 ELSE Ok(ip)

\* get_current_record_ip on a list response: the loop returns at the first
\* record set of type A whose name matches up to trailing dots and that has
\* a value; "returns" are the positions where the loop would return
ScanRecordSets(sets, record_name) ==
    LET returns == { i \in 1..Len(sets) :
                       /\ TrimEndDots(sets[i].name) = TrimEndDots(record_name)
                       /\ sets[i].type = "A"
                       /\ sets[i].values # <<>> }
    IN  IF returns = {}
        THEN Err(ErrV("No A record found for", record_name, "", "none"))
        ELSE LET first == CHOOSE i \in returns : \A j \in returns : i <= j
                 value == sets[first].values[1]
                 ip == ParseIpv4(value)
             IN  IF ip = NoIp
                 THEN Err(ErrV("Invalid IP in DNS record", value, "", "parse"))
                 ELSE Ok(ip)

\* get_current_record_ip: sent is whether the list request was answered
GetCurrentRecordIp(sent, listing, hosted_zone_id, record_name) ==
    IF ~sent
    THEN Err(ErrV("Failed to list records in zone", <<>>, hosted_zone_id, "send"))
    ELSE ScanRecordSets(ListResourceRecordSets(listing), record_name)

\* update_record: the name submitted ends with a dot
NormalizeName(record_name) ==
    IF EndsWithDot(record_name) THEN record_name ELSE Append(record_name, ".")

\* variant: the record set is deleted and created again
ChangeBatch_DeleteCreate(record_name, ip, ttl) ==
    << [action |-> "DELETE",
        record_set |-> RRSet(NormalizeName(record_name), "A", ttl, << IpToString(ip) >>)],
       [action |-> "CREATE",
        record_set |-> RRSet(NormalizeName(record_name), "A", ttl, << IpToString(ip) >>)] >>

\* update_record: the change batch submitted, one UPSERT of one A record set
\* with one value
ChangeBatch(record_name, ip, ttl) ==
    << [action |-> "UPSERT",
        record_set |-> RRSet(NormalizeName(record_name), "A", ttl, << IpToString(ip) >>)] >>

\* the provider applies one UPSERT: the record set of that name and type is
\* replaced where it stands, or added at the end
ApplyUpsert(listing, rs) ==
    LET same == { i \in 1..Len(listing) :
                    listing[i].name = rs.name /\ listing[i].type = rs.type }
    IN  IF same = {}
        THEN Append(listing, rs)
        ELSE LET first == CHOOSE i \in same : \A j \in same : i <= j
             IN  [listing EXCEPT ![first] = rs]

RECURSIVE ApplyChanges(_, _)
ApplyChanges(listing, changes) ==
    IF changes = <<>> THEN listing
    ELSE ApplyChanges(ApplyUpsert(listing, Head(changes).record_set), Tail(changes))

\* update_record's result: Ok(()) or the send error with its context
UpdateRecordResult(sent, hosted_zone_id, record_name) ==
    IF sent
    THEN Ok(NoIp)
    ELSE Err(ErrV("Failed to update DNS record", NormalizeName(record_name), hosted_zone_id, "send"))

\* wait_for_change: the number of get_change polls after which it gives up
MAX_ATTEMPTS == 60

\* what one get_change call can produce: the request fails (sent = FALSE),
\* a response without change info, or change info with a status
GetChangeResponses ==
    { [sent |-> FALSE, info |-> FALSE, status |-> "NONE"],
      [sent |-> TRUE,  info |-> FALSE, status |-> "NONE"],
      [sent |-> TRUE,  info |-> TRUE,  status |-> "PENDING"],
      [sent |-> TRUE,  info |-> TRUE,  status |-> "INSYNC"],
      [sent |-> TRUE,  info |-> TRUE,  status |-> "UNKNOWN"] }

ChangeIds == {"/change/C1", "/change/C2"}

\* variant: an in-sync status is logged like any other and polling goes on
WaitStep_IgnoreInsync(attempts, resp, change_id) ==
    IF ~resp.sent
    THEN [done |-> TRUE, attempts |-> attempts,
          res |-> Err(ErrV("Failed to get change status for", <<>>, change_id, "send"))]
    ELSE IF attempts + 1 >= MAX_ATTEMPTS
    THEN [done |-> TRUE, attempts |-> attempts + 1,
          res |-> Err(ErrV("Timeout waiting for DNS change to propagate", <<>>, "", "none"))]
    ELSE [done |-> FALSE, attempts |-> attempts + 1, res |-> NoResult]

\* variant: the ceiling is compared with > instead of >=
WaitStep_OneMore(attempts, resp, change_id) ==
    IF ~resp.sent
    THEN [done |-> TRUE, attempts |-> attempts,
          res |-> Err(ErrV("Failed to get change status for", <<>>, change_id, "send"))]
    ELSE IF resp.info /\ resp.status = "INSYNC"
    THEN [done |-> TRUE, attempts |-> attempts, res |-> Ok(NoIp)]
    ELSE IF attempts + 1 > MAX_ATTEMPTS
    THEN [done |-> TRUE, attempts |-> attempts + 1,
          res |-> Err(ErrV("Timeout waiting for DNS change to propagate", <<>>, "", "none"))]
    ELSE [done |-> FALSE, attempts |-> attempts + 1, res |-> NoResult]

\* wait_for_change, one iteration of the loop: the get_change response, the
\* match on the status, the attempt counter and the ceiling.
\* done: the call returns res; otherwise it sleeps and polls again.
WaitStep(attempts, resp, change_id) ==
    IF ~resp.sent
    THEN [done |-> TRUE, attempts |-> attempts,
          res |-> Err(ErrV("Failed to get change status for", <<>>, change_id, "send"))]
    ELSE IF resp.info /\ resp.status = "INSYNC"
    THEN [done |-> TRUE, attempts |-> attempts, res |-> Ok(NoIp)]
    ELSE IF attempts + 1 >= MAX_ATTEMPTS
    THEN [done |-> TRUE, attempts |-> attempts + 1,
          res |-> Err(ErrV("Timeout waiting for DNS change to propagate", <<>>, "", "none"))]
    ELSE [done |-> FALSE, attempts |-> attempts + 1, res |-> NoResult]

\* ------------------------------------------------------------------------
\* run_update's decisions (src/src/main.rs)
\* ------------------------------------------------------------------------

\* variant: update_record is called for every record read
NeedsUpdate_Always(read, ip) == TRUE

\* variant: a failed read skips the record
NeedsUpdate_SkipOnError(read, ip) == read.ok /\ read.val # ip

\* variant: update_record is called when the read failed or returned
\* current_ip
NeedsUpdate_WhenEqual(read, ip) == ~read.ok \/ read.val = ip

\* run_update, the match on get_current_record_ip: update_record is called
\* when the read failed or returned another address than current_ip
NeedsUpdate(read, ip) == ~read.ok \/ read.val # ip

\* variant: the default ttl is passed instead of the record's
UpdateArgs_DefaultTtl(record, ip) ==
    [zone |-> record.hosted_zone_id, name |-> record.name, ip |-> ip, ttl |-> 300]

\* variant: update_record is called on another hosted zone than the record's
UpdateArgs_OtherZone(record, ip) ==
    [zone |-> IF record.hosted_zone_id = "Z1" THEN "Z2" ELSE "Z1",
     name |-> record.name, ip |-> ip, ttl |-> record.ttl]

\* the arguments run_update passes to update_record
UpdateArgs(record, ip) ==
    [zone |-> record.hosted_zone_id, name |-> record.name, ip |-> ip, ttl |-> record.ttl]

\* variant: run_update goes on to the records without an address
DetectErrorReturns_Never(res) == FALSE

\* run_update, the `?` on get_public_ip: TRUE when run_update returns the
\* result at once
DetectErrorReturns(res) == ~res.ok

\* variant: run_update goes on to the next record after a failed update_record
UpdateErrorReturns_Never(res) == FALSE

\* run_update, the `?` on update_record: TRUE when run_update returns the
\* result at once
UpdateErrorReturns(res) == ~res.ok

\* entries of the provider call log
ReadCall(record, res) ==
    [op |-> "read", zone |-> record.hosted_zone_id, name |-> record.name,
     ip |-> NoIp, ttl |-> 0, res |-> res]

UpsertCall(args, batch, res) ==
    [op |-> "upsert", zone |-> args.zone, name |-> args.name,
     ip |-> args.ip, ttl |-> args.ttl, res |-> res, batch |-> batch]

\* ------------------------------------------------------------------------
\* Config (src/src/config.rs)
\* ------------------------------------------------------------------------

\* Option<String>
None == [some |-> FALSE, val |-> <<>>]

Some(v) == [some |-> TRUE, val |-> v]

\* AwsConfig::default()
DefaultAws == [access_key_id |-> None, secret_access_key |-> None]

DnsRecord(n, z, t) == [name |-> n, hosted_zone_id |-> z, ttl |-> t]

\* the value of an absent Config (Err arm of a Result<Config>)
NoConfig == [records |-> <<>>, aws |-> DefaultAws]

\* default_ttl()
default_ttl == 300

\* Display for i64
RECURSIVE NatToString(_)
NatToString(n) ==
    IF n < 10 THEN <<Digits[n + 1]>>
    ELSE NatToString(n \div 10) \o <<Digits[(n % 10) + 1]>>

I64ToString(n) == IF n < 0 THEN <<"-">> \o NatToString(0 - n) ELSE NatToString(n)

\* a TOML basic string: the quote and the backslash are escaped
RECURSIVE EscapeToml(_)
EscapeToml(s) ==
    IF s = <<>> THEN <<>>
    ELSE IF Head(s) \in {"\"", "\\"}
    THEN <<"\\", Head(s)>> \o EscapeToml(Tail(s))
    ELSE <<Head(s)>> \o EscapeToml(Tail(s))

QuoteToml(s) == <<"\"">> \o EscapeToml(s) \o <<"\"">>

\* the inside of a basic string is well formed: no bare quote, and every
\* backslash starts an escape of a quote or a backslash
RECURSIVE EscapedOk(_)
EscapedOk(t) ==
    IF t = <<>> THEN TRUE
    ELSE IF Head(t) = "\""
    THEN FALSE
    ELSE IF Head(t) = "\\"
    THEN Len(t) >= 2 /\ t[2] \in {"\"", "\\"} /\ EscapedOk(Tail(Tail(t)))
    ELSE EscapedOk(Tail(t))

RECURSIVE UnescapeToml(_)
UnescapeToml(t) ==
    IF t = <<>> THEN <<>>
    ELSE IF Head(t) = "\\"
    THEN <<t[2]>> \o UnescapeToml(Tail(Tail(t)))
    ELSE <<Head(t)>> \o UnescapeToml(Tail(t))

\* lines of a TOML document
TableLine(k) == [kind |-> "table", key |-> k, text |-> <<>>]

ArrayTableLine(k) == [kind |-> "array_table", key |-> k, text |-> <<>>]

KeyValueLine(k, t) == [kind |-> "kv", key |-> k, text |-> t]

\* a TOML value as the parser reads it: a basic string, an integer, the
\* empty array, or something that is no value
TomlValue(text) ==
    IF Len(text) >= 2 /\ text[1] = "\"" /\ text[Len(text)] = "\""
    THEN LET inner == SubSeq(text, 2, Len(text) - 1)
         IN  IF EscapedOk(inner)
             THEN [type |-> "string", s |-> UnescapeToml(inner), n |-> 0]
             ELSE [type |-> "invalid", s |-> <<>>, n |-> 0]
    ELSE IF text = <<"[", "]">>
    THEN [type |-> "array", s |-> <<>>, n |-> 0]
    ELSE IF text # <<>> /\ DigitRun(text) = Len(text)
    THEN [type |-> "integer", s |-> <<>>, n |-> DecValue(text, 0)]
    ELSE IF Len(text) >= 2 /\ text[1] = "-" /\ DigitRun(Tail(text)) = Len(text) - 1
    THEN [type |-> "integer", s |-> <<>>, n |-> 0 - DecValue(Tail(text), 0)]
    ELSE [type |-> "invalid", s |-> <<>>, n |-> 0]

\* variant: every field of a record is written but the ttl
SerializeRecord_NoTtl(r) ==
    << ArrayTableLine("records"),
       KeyValueLine("name", QuoteToml(r.name)),
       KeyValueLine("hosted_zone_id", QuoteToml(r.hosted_zone_id)) >>

\* Serialize for DnsRecord, as an element of the array of tables
SerializeRecord(r) ==
    << ArrayTableLine("records"),
       KeyValueLine("name", QuoteToml(r.name)),
       KeyValueLine("hosted_zone_id", QuoteToml(r.hosted_zone_id)),
       KeyValueLine("ttl", I64ToString(r.ttl)) >>

RECURSIVE SerializeRecords(_)
SerializeRecords(rs) ==
    IF rs = <<>> THEN <<>>
    ELSE SerializeRecord(Head(rs)) \o SerializeRecords(Tail(rs))

\* Serialize for AwsConfig: skip_serializing_if = "Option::is_none"
SerializeAws(a) ==
    << TableLine("aws") >>
    \o (IF a.access_key_id.some
        THEN << KeyValueLine("access_key_id", QuoteToml(a.access_key_id.val)) >>
        ELSE <<>>)
    \o (IF a.secret_access_key.some
        THEN << KeyValueLine("secret_access_key", QuoteToml(a.secret_access_key.val)) >>
        ELSE <<>>)

\* toml::to_string(&Config)
TomlToString(c) ==
    (IF c.records = <<>>
     THEN << KeyValueLine("records", <<"[", "]">>) >>
     ELSE SerializeRecords(c.records))
    \o SerializeAws(c.aws)

\* an absent integer field
NoInt == [some |-> FALSE, n |-> 0]

\* the deserializer before the first line: no table entered, no field seen
ParseStart ==
    [ok |-> TRUE, cur |-> "top", seen_records |-> FALSE, seen_aws |-> FALSE,
     recs |-> <<>>, aws |-> DefaultAws]

\* a string field of the current table is set; setting it twice, or to
\* something that is no string, is an error
SetString(old, v) ==
    IF old.some \/ v.type # "string" THEN [ok |-> FALSE, val |-> old]
    ELSE [ok |-> TRUE, val |-> Some(v.s)]

\* toml::from_str::<Config>, one line: fields that Config, DnsRecord and
\* AwsConfig do not declare are skipped
ParseLine(st, line) ==
    LET last == Len(st.recs)
        v == TomlValue(line.text)
        fail == [st EXCEPT !.ok = FALSE]
    IN  IF ~st.ok THEN st
        ELSE IF line.kind = "array_table"
        THEN IF line.key # "records" THEN [st EXCEPT !.cur = "other"]
             ELSE IF st.seen_records /\ st.recs = <<>> THEN fail
             ELSE [st EXCEPT !.cur = "rec", !.seen_records = TRUE,
                             !.recs = Append(@, [name |-> None, hosted_zone_id |-> None, ttl |-> NoInt])]
        ELSE IF line.kind = "table"
        THEN IF line.key # "aws" THEN [st EXCEPT !.cur = "other"]
             ELSE IF st.seen_aws THEN fail
             ELSE [st EXCEPT !.cur = "aws", !.seen_aws = TRUE]
        ELSE IF v.type = "invalid" THEN fail
        ELSE IF st.cur = "top"
        THEN IF line.key # "records" THEN st
             ELSE IF st.seen_records \/ v.type # "array" THEN fail
             ELSE [st EXCEPT !.seen_records = TRUE]
        ELSE IF st.cur = "rec"
        THEN IF line.key = "name"
             THEN LET f == SetString(st.recs[last].name, v)
                  IN  IF f.ok THEN [st EXCEPT !.recs[last].name = f.val] ELSE fail
             ELSE IF line.key = "hosted_zone_id"
             THEN LET f == SetString(st.recs[last].hosted_zone_id, v)
                  IN  IF f.ok THEN [st EXCEPT !.recs[last].hosted_zone_id = f.val] ELSE fail
             ELSE IF line.key = "ttl"
             THEN IF st.recs[last].ttl.some \/ v.type # "integer" THEN fail
                  ELSE [st EXCEPT !.recs[last].ttl = [some |-> TRUE, n |-> v.n]]
             ELSE st
        ELSE IF st.cur = "aws"
        THEN IF line.key = "access_key_id"
             THEN LET f == SetString(st.aws.access_key_id, v)
                  IN  IF f.ok THEN [st EXCEPT !.aws.access_key_id = f.val] ELSE fail
             ELSE IF line.key = "secret_access_key"
             THEN LET f == SetString(st.aws.secret_access_key, v)
                  IN  IF f.ok THEN [st EXCEPT !.aws.secret_access_key = f.val] ELSE fail
             ELSE st
        ELSE st

RECURSIVE ParseLines(_, _)
ParseLines(st, doc) ==
    IF doc = <<>> THEN st ELSE ParseLines(ParseLine(st, Head(doc)), Tail(doc))

\* Deserialize for DnsRecord: name and hosted_zone_id are required, ttl has
\* a default
RecordComplete(r) == r.name.some /\ r.hosted_zone_id.some

\* toml::from_str::<Config>: records is required, aws has a default
TomlFromStr(doc) ==
    LET st == ParseLines(ParseStart, doc)
    IN  IF /\ st.ok
           /\ st.seen_records
           /\ \A i \in 1..Len(st.recs) : RecordComplete(st.recs[i])
        THEN Ok([records |-> [i \in 1..Len(st.recs) |->
                                DnsRecord(st.recs[i].name.val, st.recs[i].hosted_zone_id.val,
                                          IF st.recs[i].ttl.some THEN st.recs[i].ttl.n ELSE default_ttl)],
                 aws |-> st.aws])
        ELSE Err(ErrV("Failed to parse config file as TOML", <<>>, "", "toml"))

\* the first record that Config::load's loop refuses, 0 if none
FirstInvalid(records) ==
    LET bad == { i \in 1..Len(records) :
                   \/ records[i].name = <<>>
                   \/ records[i].hosted_zone_id = <<>>
                   \/ records[i].ttl <= 0 }
    IN  IF bad = {} THEN 0 ELSE CHOOSE i \in bad : \A j \in bad : i <= j

\* variant: the ttl is not looked at
Validate_NoTtlCheck(c) ==
    IF c.records = <<>>
    THEN Err(ErrV("No DNS records configured", <<>>, "", "none"))
    ELSE LET bad == { i \in 1..Len(c.records) :
                        c.records[i].name = <<>> \/ c.records[i].hosted_zone_id = <<>> }
         IN  IF bad = {} THEN Ok(c)
             ELSE LET r == c.records[CHOOSE i \in bad : \A j \in bad : i <= j]
                  IN  IF r.name = <<>>
                      THEN Err(ErrV("DNS record name cannot be empty", <<>>, "", "none"))
                      ELSE Err(ErrV("Hosted zone ID cannot be empty for record", r.name, "", "none"))

\* Config::load, the validation of the parsed configuration
Validate(c) ==
    IF c.records = <<>>
    THEN Err(ErrV("No DNS records configured", <<>>, "", "none"))
    ELSE IF FirstInvalid(c.records) = 0
    THEN Ok(c)
    ELSE LET r == c.records[FirstInvalid(c.records)]
         IN  IF r.name = <<>>
             THEN Err(ErrV("DNS record name cannot be empty", <<>>, "", "none"))
             ELSE IF r.hosted_zone_id = <<>>
             THEN Err(ErrV("Hosted zone ID cannot be empty for record", r.name, "", "none"))
             ELSE Err(ErrV("TTL must be positive for record", r.name, "", "none"))

\* a file: whether it exists, and its lines
NoFile == [exists |-> FALSE, doc |-> <<>>]

FileOf(doc) == [exists |-> TRUE, doc |-> doc]

\* Config::load(path)
Load(file) ==
    IF ~file.exists
    THEN Err(ErrV("Failed to read config file", <<>>, "", "io"))
    ELSE LET parsed == TomlFromStr(file.doc)
         IN  IF ~parsed.ok THEN parsed ELSE Validate(parsed.val)

\* variant: one key of the pair is enough
Credentials_AnyKey(aws_config) ==
    IF aws_config.access_key_id.some
    THEN [provider |-> "config-file",
          access_key |-> aws_config.access_key_id.val,
          secret_key |-> aws_config.secret_access_key.val]
    ELSE [provider |-> "default", access_key |-> <<>>, secret_key |-> <<>>]

\* DnsUpdater::new_with_config: the credentials provider of the client
Credentials(aws_config) ==
    IF aws_config.access_key_id.some /\ aws_config.secret_access_key.some
    THEN [provider |-> "config-file",
          access_key |-> aws_config.access_key_id.val,
          secret_key |-> aws_config.secret_access_key.val]
    ELSE [provider |-> "default", access_key |-> <<>>, secret_key |-> <<>>]

Contains(s, c) == \E i \in 1..Len(s) : s[i] = c

\* str::parse::<i64>: an optional sign, then digits
ParseI64(text) ==
    LET digits == IF text # <<>> /\ Head(text) \in {"+", "-"} THEN Tail(text) ELSE text
    IN  IF digits # <<>> /\ DigitRun(digits) = Len(digits)
        THEN [ok |-> TRUE,
              n |-> IF Head(text) = "-" THEN 0 - DecValue(digits, 0) ELSE DecValue(digits, 0)]
        ELSE [ok |-> FALSE, n |-> 0]

\* create_interactive_config, the validators of the three prompts
NameAccepted(input) == Trim(input) # <<>> /\ Contains(input, ".")

ZoneAccepted(input) == Trim(input) # <<>> /\ Len(input) >= 10

TtlAccepted(input) == ParseI64(input).ok /\ ParseI64(input).n > 0

\* create_interactive_config: the record pushed for three accepted answers
InteractiveRecord(name, hosted_zone_id, ttl) ==
    DnsRecord(Trim(name), Trim(hosted_zone_id), ParseI64(ttl).n)

\* create_interactive_config: the AwsConfig for the answers to the
\* credential prompts
InteractiveAws(use_credentials, access_key_id, secret_access_key) ==
    IF use_credentials
    THEN [access_key_id |-> IF access_key_id = <<>> THEN None ELSE Some(access_key_id),
          secret_access_key |-> IF secret_access_key = <<>> THEN None ELSE Some(secret_access_key)]
    ELSE DefaultAws

\* what a user may type at the prompts
NameInputs == { <<>>, <<" ", "a", ".", "e", "x", " ">>, <<".">>, <<"h", "o", "s", "t">> }

ZoneInputs == { <<>>, <<"Z", "1">>, <<" ", "Z", "1", "2", "3", "4", "5", "6", "7", "8", "9">> }

TtlInputs == { <<"3", "0", "0">>, <<"+", "6", "0">>, <<"0">>, <<"5", "m">> }

KeyInputs == { <<>>, <<"A", "K">> }

SecretInputs == { <<>>, <<"S", "K">> }

\* configurations handed to Config::save
SaveConfigs ==
    { [records |-> << DnsRecord(<<"a", ".", "e", "x">>, <<"Z", "1">>, 300), DnsRecord(<<"q", "\"", "\\", ".", "e", "x">>, <<"Z", "2">>, 600) >>,
       aws |-> [access_key_id |-> Some(<<"A", "K">>), secret_access_key |-> None]],
      [records |-> << DnsRecord(<<"a", ".", "e", "x">>, <<"Z", "1">>, 60) >>, aws |-> DefaultAws],
      [records |-> << DnsRecord(<<"a", ".", "e", "x">>, <<"Z", "1">>, 300) >>,
       aws |-> [access_key_id |-> Some(<<"A", "K">>), secret_access_key |-> Some(<<"S", "K">>)]],
      [records |-> << DnsRecord(<<"a", ".", "e", "x">>, <<"Z", "1">>, 300) >>,
       aws |-> [access_key_id |-> Some(<<>>), secret_access_key |-> Some(<<>>)]],
      [records |-> <<>>, aws |-> DefaultAws],
      [records |-> << DnsRecord(<<"a", ".", "e", "x">>, <<"Z", "1">>, 300), DnsRecord(<<"a", ".", "e", "x">>, <<"Z", "1">>, 0) >>, aws |-> DefaultAws] }

\* configuration files written by hand
HandFiles ==
    { << KeyValueLine("records", <<"[", "]">>) >>,
      << ArrayTableLine("records"),
         KeyValueLine("name", QuoteToml(<<"a", ".", "e", "x">>)),
         KeyValueLine("hosted_zone_id", QuoteToml(<<"Z", "1">>)),
         TableLine("aws"),
         KeyValueLine("region", QuoteToml(<<"e", "u">>)) >>,
      << ArrayTableLine("records"),
         KeyValueLine("name", QuoteToml(<<"h", "o", "s", "t">>)),
         KeyValueLine("hosted_zone_id", QuoteToml(<<"Z", "1">>)),
         KeyValueLine("ttl", <<"6", "0">>) >>,
      << ArrayTableLine("records"),
         KeyValueLine("name", QuoteToml(<<>>)),
         KeyValueLine("hosted_zone_id", QuoteToml(<<"Z", "1">>)) >>,
      << ArrayTableLine("records"),
         KeyValueLine("name", QuoteToml(<<"a", ".", "e", "x">>)),
         KeyValueLine("hosted_zone_id", QuoteToml(<<>>)) >>,
      << ArrayTableLine("records"),
         KeyValueLine("name", QuoteToml(<<"a", ".", "e", "x">>)),
         KeyValueLine("hosted_zone_id", QuoteToml(<<"Z", "1">>)),
         ArrayTableLine("records"),
         KeyValueLine("name", QuoteToml(<<"b", ".", "e", "x", ".">>)),
         KeyValueLine("hosted_zone_id", QuoteToml(<<"Z", "1">>)),
         KeyValueLine("ttl", <<"-", "5">>) >>,
      << ArrayTableLine("records"),
         KeyValueLine("name", QuoteToml(<<"a", ".", "e", "x">>)),
         KeyValueLine("hosted_zone_id", QuoteToml(<<"Z", "1">>)),
         KeyValueLine("ttl", QuoteToml(<<"3", "0", "0">>)) >>,
      << ArrayTableLine("records"),
         KeyValueLine("hosted_zone_id", QuoteToml(<<"Z", "1">>)) >>,
      << TableLine("aws"),
         KeyValueLine("access_key_id", QuoteToml(<<"A", "K">>)) >>,
      << ArrayTableLine("records"),
         KeyValueLine("name", QuoteToml(<<"a", ".", "e", "x">>)),
         KeyValueLine("hosted_zone_id", QuoteToml(<<"Z", "1">>)),
         KeyValueLine("ttl", <<"6", "0">>),
         TableLine("aws"),
         KeyValueLine("secret_access_key", QuoteToml(<<"S", "K">>)) >> }

\* ------------------------------------------------------------------------
\* main's start: check_and_setup_systemd (src/src/main.rs)
\* ------------------------------------------------------------------------

\* str::starts_with
StartsWith(s, prefix) ==
    Len(s) >= Len(prefix) /\ SubSeq(s, 1, Len(prefix)) = prefix

\* the lines of the unit before and after the ExecStart line
UnitHead ==
    << <<"[", "U", "n", "i", "t", "]">>,
       <<"D", "e", "s", "c", "r", "i", "p", "t", "i", "o", "n", "=", "A", "u", "t", "o", " ", "D", "N", "S", " ", "U", "p", "d", "a", "t", "e", "r">>,
       <<"A", "f", "t", "e", "r", "=", "n", "e", "t", "w", "o", "r", "k", "-", "o", "n", "l", "i", "n", "e", ".", "t", "a", "r", "g", "e", "t">>,
       <<"W", "a", "n", "t", "s", "=", "n", "e", "t", "w", "o", "r", "k", "-", "o", "n", "l", "i", "n", "e", ".", "t", "a", "r", "g", "e", "t">>,
       <<>>,
       <<"[", "S", "e", "r", "v", "i", "c", "e", "]">>,
       <<"T", "y", "p", "e", "=", "s", "i", "m", "p", "l", "e">> >>

UnitTail ==
    << <<"R", "e", "s", "t", "a", "r", "t", "=", "a", "l", "w", "a", "y", "s">>,
       <<"R", "e", "s", "t", "a", "r", "t", "S", "e", "c", "=", "1", "0">>,
       <<"U", "s", "e", "r", "=", "r", "o", "o", "t">>,
       <<"G", "r", "o", "u", "p", "=", "r", "o", "o", "t">>,
       <<>>,
       <<"#", " ", "E", "n", "v", "i", "r", "o", "n", "m", "e", "n", "t", " ", "f", "o", "r", " ", "A", "W", "S", " ", "c", "r", "e", "d", "e", "n", "t", "i", "a", "l", "s", " ", "(", "i", "f", " ", "u", "s", "i", "n", "g", " ", "f", "i", "l", "e", "s", ")">>,
       <<"E", "n", "v", "i", "r", "o", "n", "m", "e", "n", "t", "=", "A", "W", "S", "_", "C", "O", "N", "F", "I", "G", "_", "F", "I", "L", "E", "=", "/", "r", "o", "o", "t", "/", ".", "a", "w", "s", "/", "c", "o", "n", "f", "i", "g">>,
       <<"E", "n", "v", "i", "r", "o", "n", "m", "e", "n", "t", "=", "A", "W", "S", "_", "S", "H", "A", "R", "E", "D", "_", "C", "R", "E", "D", "E", "N", "T", "I", "A", "L", "S", "_", "F", "I", "L", "E", "=", "/", "r", "o", "o", "t", "/", ".", "a", "w", "s", "/", "c", "r", "e", "d", "e", "n", "t", "i", "a", "l", "s">>,
       <<>>,
       <<"#", " ", "S", "e", "c", "u", "r", "i", "t", "y", " ", "s", "e", "t", "t", "i", "n", "g", "s">>,
       <<"N", "o", "N", "e", "w", "P", "r", "i", "v", "i", "l", "e", "g", "e", "s", "=", "t", "r", "u", "e">>,
       <<"P", "r", "o", "t", "e", "c", "t", "H", "o", "m", "e", "=", "t", "r", "u", "e">>,
       <<"P", "r", "o", "t", "e", "c", "t", "S", "y", "s", "t", "e", "m", "=", "s", "t", "r", "i", "c", "t">>,
       <<"R", "e", "a", "d", "W", "r", "i", "t", "e", "P", "a", "t", "h", "s", "=", "/", "v", "a", "r", "/", "l", "o", "g">>,
       <<>>,
       <<"[", "I", "n", "s", "t", "a", "l", "l", "]">>,
       <<"W", "a", "n", "t", "e", "d", "B", "y", "=", "m", "u", "l", "t", "i", "-", "u", "s", "e", "r", ".", "t", "a", "r", "g", "e", "t">> >>

ExecStartKey == <<"E", "x", "e", "c", "S", "t", "a", "r", "t", "=">>

\* create_systemd_service_content, the ExecStart line of the format string
ExecStart(exe_path, config_path, interval, verbose) ==
    LET verbose_flag == IF verbose THEN <<" ", "-", "-", "v", "e", "r", "b", "o", "s", "e">> ELSE <<>>
    IN  ExecStartKey \o exe_path \o <<" ", "-", "-", "c", "o", "n", "f", "i", "g", " ">> \o config_path \o <<" ", "-", "-", "i", "n", "t", "e", "r", "v", "a", "l", " ">>
        \o NatToString(interval) \o <<" ", "-", "-", "s", "k", "i", "p", "-", "s", "y", "s", "t", "e", "m", "d", "-", "s", "e", "t", "u", "p">> \o verbose_flag

\* create_systemd_service_content: the lines of the unit
create_systemd_service_content(exe_path, config_path, interval, verbose) ==
    UnitHead \o << ExecStart(exe_path, config_path, interval, verbose) >> \o UnitTail

\* check_and_setup_systemd: the absolute path of the configuration file
AbsoluteConfigPath(config_path, current_dir) ==
    IF config_path # <<>> /\ Head(config_path) = "/"
    THEN config_path
    ELSE current_dir \o <<"/">> \o config_path

\* systemd reads the command line of a unit: the value of its ExecStart
\* line, split into words at white space
ExecStartValue(unit) ==
    LET at == { i \in 1..Len(unit) : StartsWith(unit[i], ExecStartKey) }
        line == unit[CHOOSE i \in at : \A j \in at : i <= j]
    IN  SubSeq(line, Len(ExecStartKey) + 1, Len(line))

RECURSIVE SplitWords(_, _)
SplitWords(s, word) ==
    IF s = <<>>
    THEN IF word = <<>> THEN <<>> ELSE << word >>
    ELSE IF IsWhitespace(Head(s))
    THEN (IF word = <<>> THEN <<>> ELSE << word >>) \o SplitWords(Tail(s), <<>>)
    ELSE SplitWords(Tail(s), Append(word, Head(s)))

\* Cli::parse on the words after the program's name: --config and
\* --interval take the next word as their value, the other flags take
\* none, and any other word is refused
RECURSIVE ParseArgs(_, _)
ParseArgs(words, cli) ==
    IF words = <<>> THEN [ok |-> TRUE, cli |-> cli]
    ELSE IF Head(words) \in {<<"-", "-", "c", "o", "n", "f", "i", "g">>, <<"-", "c">>}
    THEN IF Len(words) < 2 THEN [ok |-> FALSE, cli |-> cli]
         ELSE ParseArgs(Tail(Tail(words)), [cli EXCEPT !.config = words[2]])
    ELSE IF Head(words) = <<"-", "-", "i", "n", "t", "e", "r", "v", "a", "l">>
    THEN IF Len(words) < 2 \/ words[2] = <<>> \/ DigitRun(words[2]) # Len(words[2])
         THEN [ok |-> FALSE, cli |-> cli]
         ELSE ParseArgs(Tail(Tail(words)), [cli EXCEPT !.interval = DecValue(words[2], 0)])
    ELSE IF Head(words) = <<"-", "-", "o", "n", "c", "e">>
    THEN ParseArgs(Tail(words), [cli EXCEPT !.once = TRUE])
    ELSE IF Head(words) \in {<<"-", "-", "v", "e", "r", "b", "o", "s", "e">>, <<"-", "v">>}
    THEN ParseArgs(Tail(words), [cli EXCEPT !.verbose = TRUE])
    ELSE IF Head(words) = <<"-", "-", "s", "k", "i", "p", "-", "s", "y", "s", "t", "e", "m", "d", "-", "s", "e", "t", "u", "p">>
    THEN ParseArgs(Tail(words), [cli EXCEPT !.skip_systemd_setup = TRUE])
    ELSE [ok |-> FALSE, cli |-> cli]

\* no command line
NoCli ==
    [exe |-> <<>>, config |-> <<>>, interval |-> 0, verbose |-> FALSE,
     once |-> FALSE, skip_systemd_setup |-> FALSE]

\* Cli with the default values of its arguments
DefaultCli(exe) ==
    [exe |-> exe, config |-> <<"c", "o", "n", "f", "i", "g", ".", "t", "o", "m", "l">>, interval |-> 300, verbose |-> FALSE,
     once |-> FALSE, skip_systemd_setup |-> FALSE]

\* the process that systemd starts for the unit: the first word must be the
\* path of the executable, the other words are parsed by Cli::parse
StartService(unit, exe) ==
    LET words == SplitWords(ExecStartValue(unit), <<>>)
    IN  IF words = <<>> \/ Head(words) # exe
        THEN [started |-> TRUE, ok |-> FALSE, cli |-> NoCli]
        ELSE [started |-> TRUE] @@ ParseArgs(Tail(words), DefaultCli(exe))

\* where the executable and the configuration file may lie
ExePaths == { <<"/", "b", "/", "a", "d">>, <<"/", "m", "y", " ", "d", "/", "a", "d">> }

ConfigPaths == { <<"/", "e", "/", "c">>, <<"c">>, <<"/", "e", " ", "f", "/", "c">> }

CurrentDir == <<"/", "r">>

Intervals == {300, 600}

\* ------------------------------------------------------------------------
\* State
\* ------------------------------------------------------------------------

VARIABLES
    argv,        \* the flags on the command line
    elapsed,     \* run_continuous: the interval's next tick is due
    mode,        \* cli.once: "once" or "continuous"
    config,      \* config.records
    zones,       \* the provider: hosted zone id -> its record sets, in list order
    pc,          \* where main is: "cli", "main", "tick", "detect", "detected",
                 \* "read", "upsert", "exit"
    svc,         \* get_public_ip: index of the service tried next
    fetches,     \* requests sent by the get_public_ip call that is running or
                 \* has just returned, in order
    detected,    \* what the current cycle's get_public_ip returned
    current_ip,  \* run_update's current_ip
    idx,         \* run_update: index of the record being processed
    calls,       \* provider calls of the current cycle, in order
    result,      \* what the last finished run_update returned
    exit         \* what main returned

\* a wait_for_change call
VARIABLES
    w_pc,           \* "idle", "poll" (about to call get_change), "sleep", "done"
    w_change_id,    \* the change id waited for
    w_attempts,     \* wait_for_change's attempts
    w_polls,        \* number of get_change calls sent by this call
    w_first_insync, \* index of the first poll that reported in-sync, 0 if none
    w_seen,         \* the other kinds of answers polled so far
    w_result        \* what wait_for_change returned

\* calls of the DnsUpdater's operations on one hosted zone
VARIABLES
    d_listing,   \* the zone's record sets, in list order
    d_last,      \* the last call: its inputs, what the provider was sent or
                 \* answered, and its result
    d_prev       \* the call before it

\* main's start: Config::load_or_create and DnsUpdater::new_with_config
VARIABLES
    c_pc,        \* "idle", "start", "loaded" (a Config is at hand), "ready"
                 \* (the client is built, run_update may be called), "exit"
    c_file,      \* the file at the configuration path
    c_saved,     \* the Config that Config::save wrote into c_file, if it is
                 \* still what the file holds
    c_source,    \* where c_config comes from: "none", "file", "interactive"
    c_config,    \* what load_or_create returned
    c_client     \* the credentials provider of the DnsUpdater's client

\* main's start: check_and_setup_systemd, and the service it installs
VARIABLES
    u_pc,        \* "idle", "start", "installed" (the unit is written and
                 \* enabled), "checked" (the setup is over), "once",
                 \* "continuous" (main is in run_continuous), "exit"
    u_cli,       \* the command line as parsed, and the executable's path
    u_unit,      \* the ExecStart line of the service file, if one was written
    u_service    \* how the service's process parsed the command line that
                 \* systemd made from ExecStart

mainVars == <<argv, elapsed, mode, config, zones, pc, svc, fetches, detected, current_ip, idx, calls, result, exit>>

waitVars == <<w_pc, w_change_id, w_attempts, w_polls, w_first_insync, w_seen, w_result>>

\* the state outside the program's own run
dnsVars == <<d_listing, d_last, d_prev>>

setupVars == <<c_pc, c_file, c_saved, c_source, c_config, c_client>>

unitVars == <<u_pc, u_cli, u_unit, u_service>>

auxVars == <<waitVars, dnsVars, setupVars, unitVars>>

vars == <<mainVars, auxVars>>

\* no wait_for_change call is running
WaitIdle ==
    /\ w_pc = "idle"
    /\ w_change_id = ""
    /\ w_attempts = 0
    /\ w_polls = 0
    /\ w_first_insync = 0
    /\ w_seen = {}
    /\ w_result = NoResult

\* no call was made yet
NoCall ==
    [op |-> "none", name |-> <<>>, ip |-> NoIp, ttl |-> 0, sent |-> FALSE,
     res |-> NoResult, batch |-> <<>>, listed |-> <<>>]

\* the DnsUpdater is not called from outside the program's run
DnsIdle ==
    /\ d_listing = <<>>
    /\ d_last = NoCall
    /\ d_prev = NoCall

\* no client was built yet
NoClient == [provider |-> "none", access_key |-> <<>>, secret_key |-> <<>>]

\* main's start is not looked at
SetupIdle ==
    /\ c_pc = "idle"
    /\ c_file = NoFile
    /\ c_saved = [some |-> FALSE, val |-> NoConfig]
    /\ c_source = "none"
    /\ c_config = NoResult
    /\ c_client = NoClient

\* no service process has parsed a command line
NoService == [started |-> FALSE, ok |-> FALSE, cli |-> NoCli]

UnitIdle ==
    /\ u_pc = "idle"
    /\ u_cli = NoCli
    /\ u_unit = <<>>
    /\ u_service = NoService

Init ==
    /\ DnsIdle
    /\ SetupIdle
    /\ UnitIdle
    /\ argv \in ArgSets
    /\ elapsed = FALSE
    /\ mode = (IF "--once" \in argv THEN "once" ELSE "continuous")
    /\ config \in Configs
    /\ \E listing \in InitListings : zones = [z \in ZoneIds |-> listing]
    /\ pc = "cli"
    /\ svc = 1
    /\ fetches = <<>>
    /\ detected = NoResult
    /\ current_ip = NoIp
    /\ idx = 0
    /\ calls = <<>>
    /\ result = NoResult
    /\ exit = NoResult
    /\ WaitIdle

\* variant: run_continuous hands a cycle's error on with `?`
MainReturns_OnError(m, res) == m = "once" \/ ~res.ok

\* the end of run_update with result res: main returns it in single-pass
\* mode (main.rs:74); run_continuous logs an error and waits for the next
\* tick (main.rs:160-162)
MainReturns(m, res) == m = "once"

\* variant: main logs the error and returns Ok(())
MainResult_Swallow(res) == Ok(NoIp)

\* main's result after run_update returned res: the `?` hands an error on,
\* otherwise Ok(())
MainResult(res) == IF res.ok THEN Ok(NoIp) ELSE res

\* variant: a failed update_record is tried again
EndCycle_RetryUpsert(res) ==
    IF pc = "upsert" /\ ~res.ok
    THEN /\ pc' = "upsert"
         /\ UNCHANGED <<result, exit>>
    ELSE /\ result' = res
         /\ IF MainReturns(mode, res)
            THEN /\ pc' = "exit"
                 /\ exit' = MainResult(res)
            ELSE /\ pc' = "tick"
                 /\ UNCHANGED exit

EndCycle(res) ==
    /\ result' = res
    /\ IF MainReturns(mode, res)
       THEN /\ pc' = "exit"
            /\ exit' = MainResult(res)
       ELSE /\ pc' = "tick"
            /\ UNCHANGED exit

\* variant: the records are walked from the last to the first
NextRecord_Backwards(i) ==
    IF i = 0
    THEN /\ idx' = Len(config)
         /\ pc' = "read"
         /\ UNCHANGED <<result, exit>>
    ELSE IF i > 1
    THEN /\ idx' = i - 1
         /\ pc' = "read"
         /\ UNCHANGED <<result, exit>>
    ELSE /\ idx' = i
         /\ EndCycle(Ok(NoIp))

\* variant: the error of a record's failed read is returned after its upsert
NextRecord_ReturnReadError(i) ==
    IF calls # <<>> /\ calls[Len(calls)].op = "read" /\ ~calls[Len(calls)].res.ok
    THEN /\ idx' = i
         /\ EndCycle(calls[Len(calls)].res)
    ELSE IF i < Len(config)
    THEN /\ idx' = i + 1
         /\ pc' = "read"
         /\ UNCHANGED <<result, exit>>
    ELSE /\ idx' = i
         /\ EndCycle(Ok(NoIp))

\* run_update's loop goes on after record i
NextRecord(i) ==
    IF i < Len(config)
    THEN /\ idx' = i + 1
         /\ pc' = "read"
         /\ UNCHANGED <<result, exit>>
    ELSE /\ idx' = i
         /\ EndCycle(Ok(NoIp))

\* variant: an address detected by an earlier cycle is used again
BeginCycle_Cached ==
    IF detected.ok
    THEN /\ pc' = "read"
         /\ idx' = 1
         /\ calls' = <<>>
         /\ fetches' = <<>>
         /\ UNCHANGED <<svc, detected, current_ip>>
    ELSE /\ pc' = "detect"
         /\ svc' = 1
         /\ fetches' = <<>>
         /\ detected' = NoResult
         /\ current_ip' = NoIp
         /\ idx' = 0
         /\ calls' = <<>>

\* run_update is entered: get_public_ip starts with the first service
BeginCycle ==
    /\ pc' = "detect"
    /\ svc' = 1
    /\ fetches' = <<>>
    /\ detected' = NoResult
    /\ current_ip' = NoIp
    /\ idx' = 0
    /\ calls' = <<>>

\* Cli::parse: a flag that Cli does not declare ends the process with a
\* usage error before anything else is done
ParseCli ==
    /\ pc = "cli"
    /\ IF argv \subseteq KnownFlags
       THEN /\ pc' = "main"
            /\ UNCHANGED exit
       ELSE /\ pc' = "exit"
            /\ exit' = Err(ErrV("unexpected argument", <<>>, "", "clap"))
    /\ UNCHANGED <<argv, elapsed, mode, config, zones, svc, fetches, detected, current_ip, idx, calls, result>>
    /\ UNCHANGED auxVars

\* main with --once: one run_update
MainOnce ==
    /\ pc = "main"
    /\ mode = "once"
    /\ BeginCycle
    /\ UNCHANGED <<argv, elapsed, mode, config, zones, result, exit>>
    /\ UNCHANGED auxVars

\* variant: the interval's first tick is due one period after its creation
MainContinuous_WaitFirst ==
    /\ pc = "main"
    /\ mode = "continuous"
    /\ pc' = "tick"
    /\ elapsed' = FALSE
    /\ UNCHANGED <<argv, mode, config, zones, svc, fetches, detected, current_ip, idx, calls, result, exit>>
    /\ UNCHANGED auxVars

\* main without --once: run_continuous creates the interval, whose first
\* tick is due at once
MainContinuous ==
    /\ pc = "main"
    /\ mode = "continuous"
    /\ pc' = "tick"
    /\ elapsed' = TRUE
    /\ UNCHANGED <<argv, mode, config, zones, svc, fetches, detected, current_ip, idx, calls, result, exit>>
    /\ UNCHANGED auxVars

\* the interval's period passes, wherever run_continuous is
IntervalElapses ==
    /\ mode = "continuous"
    /\ pc \notin {"cli", "main", "exit"}
    /\ ~elapsed
    /\ elapsed' = TRUE
    /\ UNCHANGED <<argv, mode, config, zones, pc, svc, fetches, detected, current_ip, idx, calls, result, exit>>
    /\ UNCHANGED auxVars

\* variant: the tick starts a cycle wherever the loop is (a timer callback)
Tick_Callback ==
    /\ mode = "continuous"
    /\ pc \notin {"cli", "main", "exit"}
    /\ elapsed
    /\ BeginCycle
    /\ \E e \in BOOLEAN : elapsed' = e
    /\ UNCHANGED <<argv, mode, config, zones, result, exit>>
    /\ UNCHANGED auxVars

\* run_continuous: interval.tick() completes once the tick is due, and
\* run_update is called; the tick after it may be due already
Tick ==
    /\ pc = "tick"
    /\ elapsed
    /\ BeginCycle
    /\ \E e \in BOOLEAN : elapsed' = e
    /\ UNCHANGED <<argv, mode, config, zones, result, exit>>
    /\ UNCHANGED auxVars

\* get_public_ip: one service is tried; the call returns on the first
\* success and after the last failure
FetchIp ==
    /\ pc = "detect"
    /\ \E resp \in HttpResponses :
         LET r == FetchIpFromService(Services[svc], resp)
             step == GetPublicIpStep(svc, r)
         IN  /\ fetches' = Append(fetches, [service |-> Services[svc], resp |-> resp, res |-> r])
             /\ svc' = step.next
             /\ IF ~step.done
                THEN /\ pc' = "detect"
                     /\ UNCHANGED detected
                ELSE /\ pc' = "detected"
                     /\ detected' = step.res
    /\ UNCHANGED <<argv, elapsed, mode, config, zones, current_ip, idx, calls, result, exit>>
    /\ UNCHANGED auxVars

\* run_update resumes with what get_public_ip returned: the `?` returns an
\* error, otherwise current_ip is bound and the loop over the records starts
Detected ==
    /\ pc = "detected"
    /\ fetches' = <<>>
    /\ IF DetectErrorReturns(detected)
       THEN /\ UNCHANGED <<current_ip, idx>>
            /\ EndCycle(detected)
       ELSE /\ current_ip' = detected.val
            /\ NextRecord(0)
    /\ UNCHANGED <<argv, elapsed, mode, config, zones, svc, detected, calls>>
    /\ UNCHANGED auxVars

\* run_update: get_current_record_ip for the record at idx, then the match
ReadRecord ==
    /\ pc = "read"
    /\ \E sent \in BOOLEAN :
         LET record == config[idx]
             read == GetCurrentRecordIp(sent, zones[record.hosted_zone_id],
                                        record.hosted_zone_id, record.name)
         IN  /\ calls' = Append(calls, ReadCall(record, read))
             /\ IF NeedsUpdate(read, current_ip)
                THEN /\ pc' = "upsert"
                     /\ UNCHANGED <<idx, result, exit>>
                ELSE NextRecord(idx)
    /\ UNCHANGED <<argv, elapsed, mode, config, zones, svc, fetches, detected, current_ip>>
    /\ UNCHANGED auxVars

\* run_update: update_record for the record at idx, then the `?`
UpdateRecord ==
    /\ pc = "upsert"
    /\ \E sent \in BOOLEAN :
         LET record == config[idx]
             args == UpdateArgs(record, current_ip)
             batch == ChangeBatch(args.name, args.ip, args.ttl)
             res == UpdateRecordResult(sent, args.zone, args.name)
         IN  /\ calls' = Append(calls, UpsertCall(args, batch, res))
             /\ zones' = IF sent
                         THEN [zones EXCEPT ![args.zone] = ApplyChanges(@, batch)]
                         ELSE zones
             /\ IF UpdateErrorReturns(res)
                THEN /\ UNCHANGED idx
                     /\ EndCycle(res)
                ELSE NextRecord(idx)
    /\ UNCHANGED <<argv, elapsed, mode, config, svc, fetches, detected, current_ip>>
    /\ UNCHANGED auxVars

Next ==
    \/ ParseCli
    \/ MainOnce
    \/ MainContinuous
    \/ IntervalElapses
    \/ Tick
    \/ FetchIp
    \/ Detected
    \/ ReadRecord
    \/ UpdateRecord

Spec == Init /\ [][Next]_vars

\* the runtime keeps polling main's future and the interval's timer keeps
\* running: no step that can be taken is put off for ever
FairSpec ==
    /\ Spec
    /\ WF_vars(IntervalElapses)
    /\ WF_vars(Tick)
    /\ WF_vars(FetchIp)
    /\ WF_vars(Detected)
    /\ WF_vars(ReadRecord)
    /\ WF_vars(UpdateRecord)

\* ------------------------------------------------------------------------
\* wait_for_change on its own (src/src/dns.rs): a caller waits for a change
\* ------------------------------------------------------------------------

\* the program itself is not running
MainIdle ==
    /\ argv = {"--once"}
    /\ elapsed = FALSE
    /\ mode = "once"
    /\ config = SubSeq(RecordPool, 1, 1)
    /\ zones = [z \in ZoneIds |-> <<>>]
    /\ pc = "main"
    /\ svc = 1
    /\ fetches = <<>>
    /\ detected = NoResult
    /\ current_ip = NoIp
    /\ idx = 0
    /\ calls = <<>>
    /\ result = NoResult
    /\ exit = NoResult

\* wait_for_change(change_id) is called: attempts = 0
InitWait ==
    /\ MainIdle
    /\ DnsIdle
    /\ SetupIdle
    /\ UnitIdle
    /\ w_pc = "poll"
    /\ w_change_id \in ChangeIds
    /\ w_attempts = 0
    /\ w_polls = 0
    /\ w_first_insync = 0
    /\ w_seen = {}
    /\ w_result = NoResult

\* wait_for_change: one get_change call and what the loop does with it
WaitPoll ==
    /\ w_pc = "poll"
    /\ \E resp \in GetChangeResponses :
         LET step == WaitStep(w_attempts, resp, w_change_id)
         IN  /\ w_polls' = w_polls + 1
             /\ w_first_insync' =
                  IF w_first_insync = 0 /\ resp.sent /\ resp.info /\ resp.status = "INSYNC"
                  THEN w_polls + 1
                  ELSE w_first_insync
             /\ w_seen' =
                  IF ~resp.sent THEN w_seen \cup {"ERROR"}
                  ELSE IF ~resp.info THEN w_seen \cup {"NOINFO"}
                  ELSE IF resp.status = "INSYNC" THEN w_seen
                  ELSE w_seen \cup {resp.status}
             /\ w_attempts' = step.attempts
             /\ IF step.done
                THEN /\ w_pc' = "done"
                     /\ w_result' = step.res
                ELSE /\ w_pc' = "sleep"
                     /\ UNCHANGED w_result
    /\ UNCHANGED <<mainVars, dnsVars, setupVars, unitVars, w_change_id>>

\* wait_for_change: the 5 second sleep between two polls is over
WaitSleep ==
    /\ w_pc = "sleep"
    /\ w_pc' = "poll"
    /\ UNCHANGED <<mainVars, dnsVars, setupVars, unitVars, w_change_id, w_attempts, w_polls, w_first_insync, w_seen, w_result>>

NextWait ==
    \/ WaitPoll
    \/ WaitSleep

SpecWait == InitWait /\ [][NextWait]_vars

\* the runtime resumes a task whose get_change answer or sleep timer is due
FairSpecWait == SpecWait /\ WF_vars(WaitPoll) /\ WF_vars(WaitSleep)

\* ------------------------------------------------------------------------
\* DnsUpdater's operations called in any order on one hosted zone
\* (as dns.rs's test_dns_operations calls them)
\* ------------------------------------------------------------------------

\* a record set whose name sorts before every name of DnsNames
Filler(n) ==
    RRSet(<<"0">> \o DecStr(n) \o <<".", "e", "x", ".">>, "A", 300, << IpToString(Ip1) >>)

\* a zone holding one more page of record sets than a list call returns
BigListing == [n \in 1..MaxItems |-> Filler(n)]

\* a zone where two record sets share name and type (weighted routing), the
\* first an alias, which holds no values
WeightedListing ==
    << RRSet(<<"a", ".", "e", "x", ".">>, "A", 60, <<>>),
       RRSet(<<"a", ".", "e", "x", ".">>, "A", 60, << IpToString(Ip2) >>) >>

DnsListings == InitListings \cup {BigListing, WeightedListing}

DnsZone == "Z1"

\* names written and read: one record with and without the trailing dot
DnsNames == { <<"a", ".", "e", "x">>, <<"a", ".", "e", "x", ".">> }

\* names only read
DnsReadNames == DnsNames \cup { <<"b", ".", "e", "x", ".">>, <<"c", ".", "e", "x">> }

DnsIps == {Ip1, Ip2}

DnsTtls == {60, 300}

InitDns ==
    /\ MainIdle
    /\ WaitIdle
    /\ SetupIdle
    /\ UnitIdle
    /\ d_listing \in DnsListings
    /\ d_last = NoCall
    /\ d_prev = NoCall

\* update_record(hosted_zone_id, record_name, ip, ttl): the change batch is
\* sent; the provider applies it if the request gets through
DnsUpdate ==
    /\ \E record_name \in DnsNames, ip \in DnsIps, ttl \in DnsTtls, sent \in BOOLEAN :
         LET batch == ChangeBatch(record_name, ip, ttl)
         IN  /\ d_listing' = IF sent THEN ApplyChanges(d_listing, batch) ELSE d_listing
             /\ d_last' = [op |-> "upsert", name |-> record_name, ip |-> ip, ttl |-> ttl,
                           sent |-> sent,
                           res |-> UpdateRecordResult(sent, DnsZone, record_name),
                           batch |-> batch, listed |-> <<>>]
    /\ d_prev' = [d_last EXCEPT !.listed = <<>>]
    /\ UNCHANGED <<mainVars, waitVars, setupVars, unitVars>>

\* get_current_record_ip(hosted_zone_id, record_name)
DnsRead ==
    /\ \E record_name \in DnsReadNames, sent \in BOOLEAN :
         d_last' = [op |-> "read", name |-> record_name, ip |-> NoIp, ttl |-> 0,
                    sent |-> sent,
                    res |-> GetCurrentRecordIp(sent, d_listing, DnsZone, record_name),
                    batch |-> <<>>,
                    listed |-> IF sent THEN ListResourceRecordSets(d_listing) ELSE <<>>]
    /\ d_prev' = [d_last EXCEPT !.listed = <<>>]
    /\ UNCHANGED <<mainVars, waitVars, setupVars, unitVars, d_listing>>

NextDns ==
    \/ DnsUpdate
    \/ DnsRead

SpecDns == InitDns /\ [][NextDns]_vars

\* ------------------------------------------------------------------------
\* main's start: the configuration is loaded or created, the client is built
\* ------------------------------------------------------------------------

InitSetup ==
    /\ MainIdle
    /\ WaitIdle
    /\ DnsIdle
    /\ UnitIdle
    /\ c_pc = "start"
    /\ c_file \in {NoFile} \cup { FileOf(doc) : doc \in HandFiles }
    /\ c_saved = [some |-> FALSE, val |-> NoConfig]
    /\ c_source = "none"
    /\ c_config = NoResult
    /\ c_client = NoClient

\* load_or_create, the file exists: Config::load
LoadExisting ==
    /\ c_pc = "start"
    /\ c_file.exists
    /\ c_config' = Load(c_file)
    /\ c_source' = "file"
    /\ c_pc' = IF Load(c_file).ok THEN "loaded" ELSE "exit"
    /\ UNCHANGED <<c_file, c_saved, c_client>>
    /\ UNCHANGED <<mainVars, waitVars, dnsVars, unitVars>>

\* load_or_create, no file and the user declines to create one
DeclineCreate ==
    /\ c_pc = "start"
    /\ ~c_file.exists
    /\ c_config' = Err(ErrV("Configuration file is required to run auto-dns", <<>>, "", "none"))
    /\ c_source' = "none"
    /\ c_pc' = "exit"
    /\ UNCHANGED <<c_file, c_saved, c_client>>
    /\ UNCHANGED <<mainVars, waitVars, dnsVars, unitVars>>

\* the records create_interactive_config can collect: each prompt is asked
\* again until its validator accepts the answer
InteractiveRecords ==
    { InteractiveRecord(n, z, t) :
        n \in { x \in NameInputs : NameAccepted(x) },
        z \in { x \in ZoneInputs : ZoneAccepted(x) },
        t \in { x \in TtlInputs : TtlAccepted(x) } }

\* load_or_create, no file: create_interactive_config with one or two
\* records, then Config::save
CreateInteractive ==
    /\ c_pc = "start"
    /\ ~c_file.exists
    /\ \E first \in InteractiveRecords, add_another \in BOOLEAN, second \in InteractiveRecords,
          use_credentials \in BOOLEAN, key \in KeyInputs, secret \in SecretInputs :
         LET config_ == [records |-> IF add_another THEN <<first, second>> ELSE <<first>>,
                         aws |-> InteractiveAws(use_credentials, key, secret)]
         IN  /\ c_file' = FileOf(TomlToString(config_))
             /\ c_saved' = [some |-> TRUE, val |-> config_]
             /\ c_config' = Ok(config_)
    /\ c_source' = "interactive"
    /\ c_pc' = "loaded"
    /\ UNCHANGED c_client
    /\ UNCHANGED <<mainVars, waitVars, dnsVars, unitVars>>

\* main: DnsUpdater::new_with_config(&config.aws); after it the records of
\* the configuration are handed to run_update
NewWithConfig ==
    /\ c_pc = "loaded"
    /\ c_client' = Credentials(c_config.val.aws)
    /\ c_pc' = "ready"
    /\ UNCHANGED <<c_file, c_saved, c_source, c_config>>
    /\ UNCHANGED <<mainVars, waitVars, dnsVars, unitVars>>

\* the process has ended and is started again
Restart ==
    /\ c_pc' = "start"
    /\ c_source' = "none"
    /\ c_config' = NoResult
    /\ c_client' = NoClient

\* the program is run again on the same file
RunAgain ==
    /\ c_pc \in {"ready", "exit"}
    /\ Restart
    /\ UNCHANGED <<c_file, c_saved>>
    /\ UNCHANGED <<mainVars, waitVars, dnsVars, unitVars>>

\* between two runs the file is written by hand, or removed
EditFile ==
    /\ c_pc \in {"ready", "exit"}
    /\ c_file' \in {NoFile} \cup { FileOf(doc) : doc \in HandFiles }
    /\ c_saved' = [some |-> FALSE, val |-> NoConfig]
    /\ Restart
    /\ UNCHANGED <<mainVars, waitVars, dnsVars, unitVars>>

\* between two runs Config::save writes a configuration to the file
\* (as test_config_save_and_load does before it loads)
SaveConfig ==
    /\ c_pc \in {"ready", "exit"}
    /\ \E config_ \in SaveConfigs :
         /\ c_file' = FileOf(TomlToString(config_))
         /\ c_saved' = [some |-> TRUE, val |-> config_]
    /\ Restart
    /\ UNCHANGED <<mainVars, waitVars, dnsVars, unitVars>>

NextSetup ==
    \/ LoadExisting
    \/ DeclineCreate
    \/ CreateInteractive
    \/ NewWithConfig
    \/ RunAgain
    \/ EditFile
    \/ SaveConfig

SpecSetup == InitSetup /\ [][NextSetup]_vars

\* ------------------------------------------------------------------------
\* main's start: the systemd service is installed and started
\* ------------------------------------------------------------------------

CliInputs ==
    [exe : ExePaths, config : ConfigPaths, interval : Intervals, verbose : BOOLEAN,
     once : BOOLEAN, skip_systemd_setup : BOOLEAN]

InitUnit ==
    /\ MainIdle
    /\ WaitIdle
    /\ DnsIdle
    /\ SetupIdle
    /\ u_pc = "start"
    /\ u_cli \in CliInputs
    /\ u_unit = <<>>
    /\ u_service = NoService

\* main: check_and_setup_systemd unless --skip-systemd-setup or --once is
\* given. The unit is written when systemd is there, the process runs as
\* root and no unit exists; the service is started when the three systemctl
\* commands succeed
CheckAndSetupSystemd ==
    /\ u_pc = "start"
    /\ IF u_cli.skip_systemd_setup \/ u_cli.once
       THEN /\ u_pc' = "checked"
            /\ UNCHANGED u_unit
       ELSE \E available \in BOOLEAN, root \in BOOLEAN, exists \in BOOLEAN,
               written \in BOOLEAN, commands_ok \in BOOLEAN :
              IF available /\ root /\ ~exists /\ written
              THEN /\ u_unit' = create_systemd_service_content(
                                    u_cli.exe, AbsoluteConfigPath(u_cli.config, CurrentDir),
                                    u_cli.interval, u_cli.verbose)
                   /\ u_pc' = IF commands_ok THEN "installed" ELSE "checked"
              ELSE /\ u_pc' = "checked"
                   /\ UNCHANGED u_unit
    /\ UNCHANGED <<u_cli, u_service>>
    /\ UNCHANGED <<mainVars, waitVars, dnsVars, setupVars>>

\* systemd starts the service of the unit
ServiceStarts ==
    /\ u_pc = "installed"
    /\ u_service' = StartService(u_unit, u_cli.exe)
    /\ u_pc' = "checked"
    /\ UNCHANGED <<u_cli, u_unit>>
    /\ UNCHANGED <<mainVars, waitVars, dnsVars, setupVars>>

\* main after the systemd setup, whatever it did: the configuration is
\* loaded and the client built, each of which may fail, then run_update is
\* called once or run_continuous entered
MainGoesOn ==
    /\ u_pc = "checked"
    /\ \E loaded \in BOOLEAN :
         u_pc' = IF ~loaded THEN "exit"
                 ELSE IF u_cli.once THEN "once"
                 ELSE "continuous"
    /\ UNCHANGED <<u_cli, u_unit, u_service>>
    /\ UNCHANGED <<mainVars, waitVars, dnsVars, setupVars>>

NextUnit ==
    \/ CheckAndSetupSystemd
    \/ ServiceStarts
    \/ MainGoesOn

SpecUnit == InitUnit /\ [][NextUnit]_vars

TypeOK ==
    /\ mode \in {"once", "continuous"}
    /\ pc \in {"cli", "main", "tick", "detect", "detected", "read", "upsert", "exit"}
    /\ elapsed \in BOOLEAN
    /\ argv \in ArgSets
    /\ svc \in 1..Len(Services)
    /\ idx \in 0..Len(config)

\* ------------------------------------------------------------------------
\* Properties
\* ------------------------------------------------------------------------

\* the positions of calls that are for the record at index i of the config
CallsOf(i, op) ==
    { k \in 1..Len(calls) :
        /\ calls[k].op = op
        /\ calls[k].zone = config[i].hosted_zone_id
        /\ calls[k].name = config[i].name }

\* run_update is done with the record at index i
Finished(i) == idx > i \/ (idx = i /\ pc \in {"tick", "exit"})

\* a run_update has returned and no other has started
CycleEnded == pc \in {"tick", "exit"} /\ result # NoResult

\* C1: in a cycle, a record whose read returned the address detected in
\* that cycle gets no update_record call in that cycle.
C1_NoWriteWhenEqual ==
    \A i \in 1..Len(config) :
        (\E k \in CallsOf(i, "read") :
            calls[k].res.ok /\ detected.ok /\ calls[k].res.val = detected.val)
        => CallsOf(i, "upsert") = {}

\* C1 witness: a cycle has ended in which the second record was read, held
\* the detected address, and the first one did not
C1_Witness ==
    /\ CycleEnded
    /\ Len(config) = 2
    /\ \E k \in CallsOf(2, "read") : calls[k].res.ok /\ calls[k].res.val = detected.val
    /\ CallsOf(1, "upsert") # {}

\* C2 (as claimed): when the upsert of a record fails in a cycle, every later
\* record is still read in that cycle.
C2_FailureDoesNotStopLaterRecords ==
    CycleEnded =>
        \A i \in 1..Len(config) :
            (\E k \in CallsOf(i, "upsert") : ~calls[k].res.ok)
            => \A j \in (i + 1)..Len(config) : CallsOf(j, "read") # {}

\* C3: a finished record whose read failed (no A record, a list error or a
\* malformed value) has exactly one update_record call, with the address
\* detected in the cycle and the record's zone id and ttl.
C3_OneUpsertAfterFailedRead ==
    \A i \in 1..Len(config) :
        (Finished(i) /\ \E k \in CallsOf(i, "read") : ~calls[k].res.ok)
        => /\ Cardinality(CallsOf(i, "upsert")) = 1
           /\ \A k \in CallsOf(i, "upsert") :
                /\ calls[k].ip = detected.val
                /\ detected.ok
                /\ calls[k].ttl = config[i].ttl
                /\ calls[k].zone = config[i].hosted_zone_id

\* C3 witness: a cycle has ended in which a read failed on a malformed value
\* and the record was upserted
C3_Witness ==
    /\ CycleEnded
    /\ \E i \in 1..Len(config) :
         /\ \E k \in CallsOf(i, "read") : calls[k].res.err.cause = "parse"
         /\ \E k \in CallsOf(i, "upsert") : calls[k].res.ok

\* the record at index i was read in this cycle and held another address
\* than the detected one
MismatchRead(i) ==
    \E k \in CallsOf(i, "read") :
        calls[k].res.ok /\ detected.ok /\ calls[k].res.val # detected.val

\* the record at index i has exactly one update_record call, with the
\* detected address and the record's ttl
OneUpsertWithDetectedIp(i) ==
    /\ Cardinality(CallsOf(i, "upsert")) = 1
    /\ \A k \in CallsOf(i, "upsert") :
         calls[k].ip = detected.val /\ calls[k].ttl = config[i].ttl

\* C4 (as claimed): in single-pass mode every record read with another
\* address than the detected one gets exactly one upsert with the detected
\* address and its ttl, and when the upserts of all those records succeed
\* main returns Ok.
C4_Original ==
    (mode = "once" /\ pc = "exit" /\ \E i \in 1..Len(config) : MismatchRead(i))
    => /\ \A i \in 1..Len(config) : MismatchRead(i) => OneUpsertWithDetectedIp(i)
       /\ (\A i \in 1..Len(config) :
              MismatchRead(i) => \A k \in CallsOf(i, "upsert") : calls[k].res.ok)
          => exit.ok

\* C4 (amended): in single-pass mode every record read with another address
\* than the detected one gets exactly one upsert with the detected address
\* and its ttl, and when every upsert of the pass succeeds (those after a
\* failed read too) main returns Ok.
C4_MismatchUpsertedOnce ==
    (mode = "once" /\ pc = "exit" /\ detected.ok)
    => /\ \A i \in 1..Len(config) : MismatchRead(i) => OneUpsertWithDetectedIp(i)
       /\ (\A k \in 1..Len(calls) : calls[k].op = "upsert" => calls[k].res.ok)
          => exit.ok

\* C4 witness: a single pass over two records has ended with Ok, the second
\* record (ttl 60) having held another address
C4_Witness ==
    /\ mode = "once"
    /\ pc = "exit"
    /\ exit.ok
    /\ Len(config) = 2
    /\ MismatchRead(2)
    /\ \E k \in CallsOf(2, "upsert") : calls[k].res.ok /\ calls[k].ttl = 60

\* C5: in single-pass mode, when an update_record call of the pass failed,
\* main returns that error: it names the record and carries the cause.
C5_OnceFailsOnWriteError ==
    (mode = "once" /\ pc = "exit")
    => \A k \in 1..Len(calls) :
         (calls[k].op = "upsert" /\ ~calls[k].res.ok)
         => /\ ~exit.ok
            /\ exit.err.msg = "Failed to update DNS record"
            /\ TrimEndDots(exit.err.name) = TrimEndDots(calls[k].name)
            /\ exit.err.zone = calls[k].zone
            /\ exit.err.cause = "send"

\* C5 witness: a single pass has ended after the upsert of its second record
\* failed
C5_Witness ==
    /\ mode = "once"
    /\ pc = "exit"
    /\ Len(config) = 2
    /\ \E k \in CallsOf(2, "upsert") : ~calls[k].res.ok

\* C6: in continuous mode main never returns, and after a cycle that
\* returned an error the loop waits for the next tick, which starts a cycle.
C6_ContinuousNeverExits ==
    (mode = "continuous" /\ argv \subseteq KnownFlags)
    => /\ pc # "exit"
       /\ exit = NoResult
       /\ (pc \in {"tick", "exit"} /\ result # NoResult /\ ~result.ok)
          => /\ pc = "tick"
             /\ elapsed => ENABLED Tick
             /\ ~elapsed => ENABLED IntervalElapses

\* C6 witness: a new cycle is running after a cycle that failed in detection
C6_Witness ==
    /\ mode = "continuous"
    /\ pc = "read"
    /\ result.err.msg = "Failed to detect public IP from any service"

\* C7: in a cycle whose detection failed there is no provider call at all,
\* and the cycle has returned the error.
C7_DetectionFailureAbortsCycle ==
    (detected # NoResult /\ ~detected.ok)
    => /\ calls = <<>>
       /\ \/ pc = "detected"
          \/ /\ pc \in {"tick", "exit"}
             /\ result = detected
             /\ ~result.ok

\* C7 witness: a cycle of the continuous loop has ended on a detection
\* failure
C7_Witness ==
    /\ pc = "tick"
    /\ detected # NoResult
    /\ ~detected.ok
    /\ ~result.ok
    /\ Len(config) = 2

\* C8: the services are requested in list order, and a service that succeeds
\* is the last one requested; its address is what get_public_ip returns.
C8_FirstSuccessShortCircuits ==
    \A k \in 1..Len(fetches) :
        /\ k <= Len(Services)
        /\ fetches[k].service = Services[k]
        /\ fetches[k].res.ok
           => /\ k = Len(fetches)
              /\ detected = Ok(fetches[k].res.val)

\* C8 witness: the first service failed, the second returned 10.0.0.1, which
\* was returned, and no third was requested
C8_Witness ==
    /\ pc = "detected"
    /\ Len(fetches) = 2
    /\ ~fetches[1].res.ok
    /\ fetches[2].res.ok
    /\ detected = Ok(Ip1)

\* an endpoint fails: no answer, a status outside 2xx, or a body that after
\* trimming is not an IPv4 literal
EndpointFails(resp) ==
    \/ ~resp.sent
    \/ resp.status < 200
    \/ resp.status > 299
    \/ ParseIpv4(Trim(resp.body)) = NoIp

\* C9: when get_public_ip returns, it fails exactly when every service
\* failed; a failure carries no address, and a success carries the address
\* parsed from the body of a service that succeeded.
C9_FailsIffAllFail ==
    pc = "detected"
    => /\ ~detected.ok
          <=> /\ Len(fetches) = Len(Services)
              /\ \A k \in 1..Len(fetches) : EndpointFails(fetches[k].resp)
       /\ ~detected.ok => detected.val = NoIp
       /\ detected.ok
          => \E k \in 1..Len(fetches) :
                /\ ~EndpointFails(fetches[k].resp)
                /\ detected.val = ParseIpv4(Trim(fetches[k].resp.body))

\* C9 witness: detection has failed after all services failed, one of them
\* with a valid address under status 500
C9_Witness ==
    /\ pc = "detected"
    /\ ~detected.ok
    /\ Len(fetches) = Len(Services)
    /\ \E k \in 1..Len(fetches) : fetches[k].resp.status = 500

\* C10: within one get_public_ip call no service is requested twice, and
\* each request after a failure goes to the next service.
C10_NoRetry ==
    /\ \A j, k \in 1..Len(fetches) : j # k => fetches[j].service # fetches[k].service
    /\ \A k \in 1..(Len(fetches) - 1) :
         \E n \in 1..(Len(Services) - 1) :
            fetches[k].service = Services[n] /\ fetches[k + 1].service = Services[n + 1]

\* C10 witness: two services failed and a third was requested
C10_Witness ==
    /\ Len(fetches) = 3
    /\ ~fetches[1].res.ok
    /\ ~fetches[2].res.ok

\* C11: wait_for_change returns Ok at the first poll that reports in-sync,
\* after exactly that many get_change calls and no more; it returns Ok in no
\* other case.
C11_PropagatedAtFirstInsync ==
    /\ w_first_insync # 0
       => /\ w_pc = "done"
          /\ w_result = Ok(NoIp)
          /\ w_polls = w_first_insync
          /\ w_first_insync <= MAX_ATTEMPTS
    /\ w_result.ok => (w_first_insync # 0 /\ w_polls = w_first_insync)

\* C11 witness: pending, pending, in-sync: Ok after exactly 3 polls
C11_Witness ==
    /\ w_pc = "done"
    /\ w_result.ok
    /\ w_polls = 3
    /\ w_first_insync = 3
    /\ w_seen = {"PENDING"}

\* no poll reported in-sync and none failed
OnlyNotInsync == w_first_insync = 0 /\ "ERROR" \notin w_seen

TimedOut == w_result.err.msg = "Timeout waiting for DNS change to propagate"

\* C12: wait_for_change never sends a 61st get_change; as long as no poll
\* reports in-sync or fails it keeps polling through pending, unrecognized
\* and missing statuses and times out after exactly 60 polls; and it always
\* returns.
C12_AlwaysTerminates ==
    /\ [](/\ w_polls <= MAX_ATTEMPTS
          /\ (OnlyNotInsync /\ w_polls < MAX_ATTEMPTS) => w_pc \in {"poll", "sleep"}
          /\ (OnlyNotInsync /\ w_polls = MAX_ATTEMPTS) => (w_pc = "done" /\ TimedOut)
          /\ TimedOut => (w_polls = MAX_ATTEMPTS /\ OnlyNotInsync))
    /\ <>(w_pc = "done")

\* C12 witness: timed out after 60 polls that saw pending, unrecognized and
\* missing statuses
C12_Witness ==
    /\ w_pc = "done"
    /\ TimedOut
    /\ w_polls = MAX_ATTEMPTS
    /\ w_seen = {"PENDING", "UNKNOWN", "NOINFO"}

\* C13: in a cycle every configured record is read at most once and
\* upserted at most once, whether the upsert succeeds or fails, and a failed
\* upsert is the last provider call of its cycle.
C13_NoRetryInCycle ==
    /\ \A i \in 1..Len(config) :
         /\ Cardinality(CallsOf(i, "upsert")) <= 1
         /\ Cardinality(CallsOf(i, "read")) <= 1
    /\ \A k \in 1..Len(calls) :
         (calls[k].op = "upsert" /\ ~calls[k].res.ok) => k = Len(calls)
    /\ Len(calls) <= 2 * Len(config)

\* C13 witness: a cycle has ended after the upsert of its second record
\* failed, and that record has one upsert call
C13_Witness ==
    /\ CycleEnded
    /\ Len(config) = 2
    /\ \E k \in CallsOf(2, "upsert") : ~calls[k].res.ok
    /\ Cardinality(CallsOf(2, "upsert")) = 1
    /\ Cardinality(CallsOf(1, "upsert")) = 1

\* the configured records the call at position k is for
RecsOf(k) ==
    { i \in 1..Len(config) :
        /\ calls[k].zone = config[i].hosted_zone_id
        /\ calls[k].name = config[i].name }

\* C16: the provider calls of a cycle go through the records in configured
\* order, one record at a time: the first call is for the first record, each
\* call is for the same record as the call before it or for the next one, a
\* record's read comes before its upsert, and the record in work is the one
\* of the last call.
C16_ConfiguredOrder ==
    /\ \A k \in 1..Len(calls) : Cardinality(RecsOf(k)) = 1
    /\ Len(calls) > 0 => RecsOf(1) = {1}
    /\ \A k \in 1..(Len(calls) - 1) :
         \E i \in RecsOf(k) :
            \/ /\ RecsOf(k + 1) = {i}
               /\ calls[k].op = "read"
               /\ calls[k + 1].op = "upsert"
            \/ /\ RecsOf(k + 1) = {i + 1}
               /\ calls[k + 1].op = "read"
    /\ (Len(calls) > 0 /\ pc \in {"read", "upsert"})
       => \/ pc = "upsert" /\ RecsOf(Len(calls)) = {idx} /\ calls[Len(calls)].op = "read"
          \/ pc = "read" /\ RecsOf(Len(calls)) = {idx - 1}

\* C16 witness: in a cycle after the first one, the first record was read
\* and upserted, then the second was read and is about to be upserted
C16_Witness ==
    /\ mode = "continuous"
    /\ result # NoResult
    /\ pc = "upsert"
    /\ idx = 2
    /\ Len(calls) = 3
    /\ RecsOf(1) = {1}
    /\ RecsOf(2) = {1}
    /\ RecsOf(3) = {2}

\* a step in which a cycle starts: run_update is entered
CycleStarts ==
    /\ pc' = "detect"
    /\ fetches' = <<>>
    /\ calls' = <<>>
    /\ detected' = NoResult
    /\ ~(pc = "detect" /\ fetches = <<>>)

\* C17: a cycle starts only while the loop waits for the tick, that is after
\* the cycle before it has returned, also when the tick became due during
\* that cycle.
C17_NoOverlap ==
    [][CycleStarts => (pc \in {"main", "tick"} /\ (mode = "continuous" => elapsed))]_vars

\* C17 witness: the next tick is due while a cycle is still at its second
\* record
C17_Witness ==
    /\ mode = "continuous"
    /\ elapsed
    /\ pc = "upsert"
    /\ idx = 2

\* the command line selects the dry run
DryRunSelected == "--no-aws" \in argv

\* C14 (as claimed): with the dry run selected every read returns the
\* sentinel address, so that when the process ends every configured record
\* was read in its last cycle and seen to differ from the detected address.
C14_DryRunAlwaysMismatch ==
    (DryRunSelected /\ pc = "exit")
    => \A i \in 1..Len(config) : MismatchRead(i)

\* C15 (as claimed): a single pass with the dry run selected ends with
\* success, and every upsert of the pass succeeded.
C15_DryRunOnceSucceeds ==
    (DryRunSelected /\ "--once" \in argv /\ pc = "exit")
    => /\ exit.ok
       /\ \A k \in 1..Len(calls) : calls[k].op = "upsert" => calls[k].res.ok

\* positions in a list response of the record sets of type A whose name is
\* the requested name up to trailing dots
MatchingA(listed, name) ==
    { i \in 1..Len(listed) :
        TrimEndDots(listed[i].name) = TrimEndDots(name) /\ listed[i].type = "A" }

IsNotFound(res) == ~res.ok /\ res.err.msg = "No A record found for"

IsInvalidIp(res) == ~res.ok /\ res.err.msg = "Invalid IP in DNS record"

\* what a read returns when the record set at position i decides
DecidedBy(listed, i, res) ==
    LET ip == ParseIpv4(listed[i].values[1])
    IN  IF ip = NoIp THEN IsInvalidIp(res) ELSE res = Ok(ip)

AnsweredRead == d_last.op = "read" /\ d_last.sent

\* C18 (as claimed): the first listed matching A record set decides: the
\* result is its parsed first value, or an error other than NotFound, and
\* NotFound only if no A record set matches.
C18_Original ==
    AnsweredRead
    => LET m == MatchingA(d_last.listed, d_last.name)
       IN  IF m = {}
           THEN IsNotFound(d_last.res)
           ELSE LET first == CHOOSE i \in m : \A j \in m : i <= j
                IN  /\ ~IsNotFound(d_last.res)
                    /\ d_last.listed[first].values # <<>>
                       => DecidedBy(d_last.listed, first, d_last.res)

\* C18 (amended): the first listed matching A record set that holds a value
\* decides: the result is its parsed first value, or the invalid-address
\* error if that value is no IPv4 literal; NotFound if no matching A record
\* set holds a value.
C18_FirstMatchWithValue ==
    AnsweredRead
    => LET m == { i \in MatchingA(d_last.listed, d_last.name) :
                    d_last.listed[i].values # <<>> }
       IN  IF m = {}
           THEN IsNotFound(d_last.res)
           ELSE LET first == CHOOSE i \in m : \A j \in m : i <= j
                IN  /\ DecidedBy(d_last.listed, first, d_last.res)
                    /\ ~IsNotFound(d_last.res)

\* C18 witness: a read returned the value of the second matching A record
\* set, the first one holding no value, after a record set of another type
\* and name would have been passed too
C18_Witness ==
    /\ AnsweredRead
    /\ d_last.res = Ok(Ip2)
    /\ 1 \in MatchingA(d_last.listed, d_last.name)
    /\ d_last.listed[1].values = <<>>
    /\ ~EndsWithDot(d_last.name)

\* C19 (as claimed): a read that follows a successful upsert of the same
\* name, with or without the trailing dot, returns the address upserted.
C19_RoundTrip ==
    ( /\ AnsweredRead
      /\ d_prev.op = "upsert"
      /\ d_prev.res.ok
      /\ TrimEndDots(d_last.name) = TrimEndDots(d_prev.name) )
    => d_last.res = Ok(d_prev.ip)

\* a step that is a successful update_record with the inputs of the
\* successful update_record before it
RepeatedUpsert ==
    /\ d_last.op = "upsert"
    /\ d_last.res.ok
    /\ d_last'.op = "upsert"
    /\ d_last'.res.ok
    /\ d_last'.name = d_last.name
    /\ d_last'.ip = d_last.ip
    /\ d_last'.ttl = d_last.ttl

\* C20: every update_record submits one change, an UPSERT of one A record
\* set with the given address as its only value, the given TTL and the name
\* ending in one dot; submitting it again with the same inputs leaves the
\* zone as it was after the first time.
C20_SingleIdempotentUpsert ==
    [][ /\ d_last'.op = "upsert"
           => /\ Len(d_last'.batch) = 1
              /\ d_last'.batch[1].action = "UPSERT"
              /\ d_last'.batch[1].record_set.type = "A"
              /\ d_last'.batch[1].record_set.values = << IpToString(d_last'.ip) >>
              /\ ParseIpv4(d_last'.batch[1].record_set.values[1]) = d_last'.ip
              /\ d_last'.batch[1].record_set.ttl = d_last'.ttl
              /\ d_last'.batch[1].record_set.name = TrimEndDots(d_last'.name) \o <<".">>
              /\ d_last'.res.ok
                 => \E i \in 1..Len(d_listing') :
                       d_listing'[i] = d_last'.batch[1].record_set
        /\ RepeatedUpsert => d_listing' = d_listing ]_vars

\* C20 witness: the same update_record succeeded twice in a row for a name
\* given without trailing dot, in a zone that held another address and TTL
\* for that name
C20_Witness ==
    /\ d_prev.op = "upsert"
    /\ d_prev.res.ok
    /\ d_last.op = "upsert"
    /\ d_last.res.ok
    /\ d_last.name = d_prev.name
    /\ d_last.ip = d_prev.ip
    /\ d_last.ttl = d_prev.ttl
    /\ ~EndsWithDot(d_last.name)
    /\ d_last.ip = Ip1
    /\ d_last.ttl = 60
    /\ Len(d_listing) = 3
    /\ d_listing[1].type = "TXT"
    /\ d_listing[2] = d_last.batch[1].record_set

\* the records that load_or_create handed to main, which run_update walks
ProcessedRecords == IF c_pc = "ready" THEN c_config.val.records ELSE <<>>

\* C21 (as claimed): every record handed to run_update has a non-empty name
\* that contains a dot, a non-empty hosted zone id and a positive ttl,
\* whether the configuration was loaded or created at the prompts.
C21_RecordsWellFormed ==
    \A i \in 1..Len(ProcessedRecords) :
        /\ ProcessedRecords[i].name # <<>>
        /\ Contains(ProcessedRecords[i].name, ".")
        /\ ProcessedRecords[i].hosted_zone_id # <<>>
        /\ ProcessedRecords[i].ttl > 0

\* a configuration that Config::load must refuse
Refused(c) ==
    \/ c.records = <<>>
    \/ \E i \in 1..Len(c.records) :
          \/ c.records[i].name = <<>>
          \/ c.records[i].hosted_zone_id = <<>>
          \/ c.records[i].ttl <= 0

\* C22: when the file parses to a configuration without records, or with a
\* record whose name or hosted zone id is empty or whose ttl is not
\* positive, Config::load returns an error and no configuration, and main
\* ends without a client or a cycle.
C22_InvalidConfigRefused ==
    (c_source = "file" /\ TomlFromStr(c_file.doc).ok /\ Refused(TomlFromStr(c_file.doc).val))
    => /\ ~c_config.ok
       /\ c_config.val = NoResult.val
       /\ c_config.err.msg \in {"No DNS records configured",
                                "DNS record name cannot be empty",
                                "Hosted zone ID cannot be empty for record",
                                "TTL must be positive for record"}
       /\ c_pc = "exit"
       /\ c_client = NoClient

\* C22 witness: a file whose second record has a negative ttl was refused
C22_Witness ==
    /\ c_source = "file"
    /\ c_pc = "exit"
    /\ TomlFromStr(c_file.doc).ok
    /\ Len(TomlFromStr(c_file.doc).val.records) = 2
    /\ TomlFromStr(c_file.doc).val.records[2].ttl < 0
    /\ c_config.err.msg = "TTL must be positive for record"

\* C23: a valid configuration written by Config::save is what Config::load
\* returns from that file: the same records in the same order, the same
\* credentials, absent ones absent.
C23_SaveLoadRoundTrip ==
    (c_source = "file" /\ c_saved.some /\ ~Refused(c_saved.val))
    => c_config = Ok(c_saved.val)

\* C23 witness: a configuration with two records, one name holding a quote
\* and a backslash, ttls 300 and 600, and an access key without secret was
\* saved and loaded
C23_Witness ==
    /\ c_source = "file"
    /\ c_saved.some
    /\ c_config.ok
    /\ Len(c_config.val.records) = 2
    /\ Contains(c_config.val.records[2].name, "\"")
    /\ Contains(c_config.val.records[2].name, "\\")
    /\ c_config.val.records[2].ttl = 600
    /\ c_config.val.aws.access_key_id.some
    /\ ~c_config.val.aws.secret_access_key.some

\* C25: the client is built with the configured pair when both the access
\* key id and the secret access key are present, and with the default
\* credentials chain when either is absent.
C25_CredentialResolution ==
    c_pc = "ready"
    => LET aws_ == c_config.val.aws
       IN  IF aws_.access_key_id.some /\ aws_.secret_access_key.some
           THEN /\ c_client.provider = "config-file"
                /\ c_client.access_key = aws_.access_key_id.val
                /\ c_client.secret_key = aws_.secret_access_key.val
           ELSE c_client = [provider |-> "default", access_key |-> <<>>, secret_key |-> <<>>]

\* C25 witness: a client was built with the pair of the loaded file
C25_Witness ==
    /\ c_pc = "ready"
    /\ c_source = "file"
    /\ c_client.provider = "config-file"
    /\ c_client.access_key # <<>>
    /\ c_client.secret_key # <<>>

InRecordLoop(p) == p \in {"read", "upsert"}

\* C24: every cycle starts without an address and calls get_public_ip; the
\* loop over the records is entered only from that call's return, with the
\* address of its last fetch, which stays current_ip until the cycle ends;
\* every upsert of the cycle carries it.
C24_FreshAddressEachCycle ==
    [][ /\ CycleStarts => (detected' = NoResult /\ current_ip' = NoIp)
        /\ (InRecordLoop(pc') /\ ~InRecordLoop(pc))
           => /\ pc = "detected"
              /\ fetches # <<>>
              /\ fetches[Len(fetches)].res = Ok(current_ip')
              /\ detected' = Ok(current_ip')
        /\ (InRecordLoop(pc') /\ InRecordLoop(pc)) => current_ip' = current_ip
        /\ \A k \in 1..Len(calls') :
              calls'[k].op = "upsert" => calls'[k].ip = current_ip' ]_vars

\* C24 witness: a cycle detected 203.0.113.5 and is about to upsert it over
\* the 10.0.0.1 that an earlier cycle had detected and written into the
\* empty zone
C24_Witness ==
    /\ mode = "continuous"
    /\ result.ok
    /\ pc = "upsert"
    /\ idx = 1
    /\ current_ip = Ip2
    /\ zones[config[1].hosted_zone_id] =
         << RRSet(NormalizeName(config[1].name), "A", config[1].ttl, << IpToString(Ip1) >>) >>

\* C26 (as claimed): --write-config together with --once or --no-aws ends
\* the process with an error whose message is "--write-config cannot be
\* used with other flags", and no reconciliation was run.
C26_WriteConfigConflict ==
    ( /\ "--write-config" \in argv
      /\ argv \cap {"--once", "--no-aws"} # {}
      /\ pc = "exit" )
    => /\ ~exit.ok
       /\ exit.err.msg = "--write-config cannot be used with other flags"
       /\ calls = <<>>
       /\ detected = NoResult

\* C27 (as claimed): the ExecStart line of a unit that was written is the
\* executable, --config with the absolute configuration path, --interval
\* with the interval, --skip-systemd-setup, and --verbose exactly if verbose
\* is set; the service started from it runs with these arguments, in
\* continuous mode and with the systemd setup skipped.
C27_ExecStart ==
    /\ u_unit # <<>>
       => ExecStartValue(u_unit) =
            u_cli.exe \o <<" ", "-", "-", "c", "o", "n", "f", "i", "g", " ">> \o AbsoluteConfigPath(u_cli.config, CurrentDir)
            \o <<" ", "-", "-", "i", "n", "t", "e", "r", "v", "a", "l", " ">> \o NatToString(u_cli.interval) \o <<" ", "-", "-", "s", "k", "i", "p", "-", "s", "y", "s", "t", "e", "m", "d", "-", "s", "e", "t", "u", "p">>
            \o (IF u_cli.verbose THEN <<" ", "-", "-", "v", "e", "r", "b", "o", "s", "e">> ELSE <<>>)
    /\ u_service.started
       => /\ u_service.ok
          /\ ~u_service.cli.once
          /\ u_service.cli.skip_systemd_setup
          /\ u_service.cli.config = AbsoluteConfigPath(u_cli.config, CurrentDir)
          /\ u_service.cli.interval = u_cli.interval
          /\ u_service.cli.verbose = u_cli.verbose

\* C28: a cycle whose get_public_ip succeeded and whose update_record calls
\* all succeeded returns Ok, whatever its reads returned, and every
\* configured record was read and is done.
C28_ReadFailureAloneNeverFails ==
    ( /\ CycleEnded
      /\ detected.ok
      /\ \A k \in 1..Len(calls) : calls[k].op = "upsert" => calls[k].res.ok )
    => /\ result.ok
       /\ \A i \in 1..Len(config) :
            /\ Cardinality(CallsOf(i, "read")) = 1
            /\ Finished(i)
            /\ (\A k \in CallsOf(i, "read") : ~calls[k].res.ok)
               => Cardinality(CallsOf(i, "upsert")) = 1

\* C28 witness: a cycle over two records has returned Ok although the list
\* request of the first record failed and the second record was not found
C28_Witness ==
    /\ CycleEnded
    /\ result.ok
    /\ Len(config) = 2
    /\ \E k \in CallsOf(1, "read") : ~calls[k].res.ok /\ calls[k].res.err.cause = "send"
    /\ \E k \in CallsOf(2, "read") :
         ~calls[k].res.ok /\ calls[k].res.err.msg = "No A record found for"

\* the provider calls of the cycle so far have the shape the loop of
\* run_update gives them
CallTraceShape ==
    /\ (calls # <<>> \/ InRecordLoop(pc)) => (detected.ok /\ current_ip = detected.val)
    /\ pc \in {"detect", "detected"} => calls = <<>>
    /\ \A i \in 1..Len(config) : Cardinality(CallsOf(i, "read")) <= 1
    /\ \A k \in 1..Len(calls) :
         /\ RecsOf(k) # {}
         /\ calls[k].op = "upsert"
            => /\ k > 1
               /\ calls[k - 1].op = "read"
               /\ calls[k - 1].zone = calls[k].zone
               /\ calls[k - 1].name = calls[k].name
               /\ Len(calls[k].batch) = 1
               /\ \E i \in RecsOf(k) :
                    calls[k].batch[1].record_set.name = NormalizeName(config[i].name)

\* C29: in a cycle get_public_ip is called once, at the start, and has
\* returned an address before any provider call; every record is read at
\* most once; every upsert comes right after the read of the same record;
\* every provider call is for a configured (zone, name) pair.
C29_CallTraceShape ==
    /\ []CallTraceShape
    /\ [][ /\ (pc' = "detect" /\ pc # "detect") => (CycleStarts /\ pc \in {"main", "tick"})
           /\ (pc' = "detected" /\ pc # "detected") => pc = "detect" ]_vars

\* C29 witness: a cycle over two records has ended with the calls read,
\* upsert, read, upsert
C29_Witness ==
    /\ CycleEnded
    /\ Len(config) = 2
    /\ Len(calls) = 4
    /\ calls[2].op = "upsert"
    /\ calls[4].op = "upsert"
    /\ calls[4].name = config[2].name

\* the positions, in its hosted zone at the provider, of the A record sets
\* of the configured record i
ProviderSets(i) ==
    LET listing == zones[config[i].hosted_zone_id]
    IN  { k \in 1..Len(listing) :
            /\ listing[k].type = "A"
            /\ listing[k].name = NormalizeName(config[i].name) }

\* the values that the provider holds for the configured record i
ProviderValues(i) ==
    IF ProviderSets(i) = {}
    THEN <<>>
    ELSE LET first == CHOOSE k \in ProviderSets(i) : \A j \in ProviderSets(i) : k <= j
         IN  zones[config[i].hosted_zone_id][first].values

\* every configured record holds ip at the provider, and nothing else
AllHold(ip) ==
    \A i \in 1..Len(config) : ProviderValues(i) = << IpToString(ip) >>

\* the first value of every configured record at the provider is ip
AllHoldFirst(ip) ==
    \A i \in 1..Len(config) :
        ProviderValues(i) # <<>> /\ ProviderValues(i)[1] = IpToString(ip)

\* a cycle that came after an error-free one is at its records, and the
\* address it detected is the one the provider holds for every configured
\* record: neither the address nor the provider's records have changed
AtFixedPoint ==
    /\ result.ok
    /\ InRecordLoop(pc)
    /\ AllHoldFirst(current_ip)

\* C30 (as claimed): after an error-free cycle every configured record's A
\* value at the provider is the detected address, and a cycle that comes
\* after it with the same address and the same provider records makes no
\* update_record call.
C30_Original ==
    /\ (CycleEnded /\ result.ok) => AllHold(current_ip)
    /\ AtFixedPoint
       => /\ pc # "upsert"
          /\ \A k \in 1..Len(calls) : calls[k].op # "upsert"

\* C30 (amended): after an error-free cycle the first A value of every
\* configured record at the provider is the detected address; in a cycle
\* that comes after it with the same address and the same provider records,
\* every read that returns an address returns the detected one, and
\* update_record is called only for a record whose read failed.
C30_FixedPoint ==
    /\ (CycleEnded /\ result.ok) => AllHoldFirst(current_ip)
    /\ AtFixedPoint
       => /\ \A k \in 1..Len(calls) :
               /\ (calls[k].op = "read" /\ calls[k].res.ok) => calls[k].res.val = current_ip
               /\ calls[k].op = "upsert"
                  => (k > 1 /\ calls[k - 1].op = "read" /\ ~calls[k - 1].res.ok)
          /\ pc = "upsert"
             => (calls # <<>> /\ calls[Len(calls)].op = "read" /\ ~calls[Len(calls)].res.ok)
          /\ (\A k \in 1..Len(calls) : calls[k].op = "read" => calls[k].res.ok)
             => (pc # "upsert" /\ \A k \in 1..Len(calls) : calls[k].op = "read")

\* C30 witness: at the fixed point, the read of the first record returned
\* the detected address and no update_record was called for it, the list
\* request of the second record failed and its update_record call is next
C30_Witness ==
    /\ AtFixedPoint
    /\ Len(config) = 2
    /\ Len(calls) = 2
    /\ calls[1].res = Ok(current_ip)
    /\ calls[2].op = "read"
    /\ ~calls[2].res.ok
    /\ pc = "upsert"

\* no list or change request for the configured record i has failed in the
\* cycle so far
OwnRequestsSucceed(i) ==
    \A k \in CallsOf(i, "read") \cup CallsOf(i, "upsert") :
        calls[k].res.err.cause # "send"

\* the provider holds the address detected in the cycle for the configured
\* record i
BroughtToDetected(i) ==
    /\ detected.ok
    /\ current_ip = detected.val
    /\ ProviderValues(i) # <<>>
    /\ ProviderValues(i)[1] = IpToString(current_ip)

\* C31 (as claimed): in continuous mode, when detection succeeds again and
\* again and the provider requests for the last configured record never
\* fail, the provider eventually holds the detected address for that record,
\* whatever happens to the records before it.
C31_NoStarvation ==
    ( /\ mode = "continuous"
      /\ argv \subseteq KnownFlags
      /\ Len(config) >= 2
      /\ []<>(pc = "read" /\ detected.ok)
      /\ []OwnRequestsSucceed(Len(config)) )
    => <>BroughtToDetected(Len(config))

\* positions in the whole zone of the A record sets that bear the name of
\* the last read, up to trailing dots, and hold a value
ZoneMatches ==
    { i \in MatchingA(d_listing, d_last.name) : d_listing[i].values # <<>> }

\* the first of them
FirstZoneMatch == CHOOSE i \in ZoneMatches : \A j \in ZoneMatches : i <= j

\* C33 (as claimed): an answered read of a name for which the zone holds an
\* A record set with a value does not return NotFound, however many record
\* sets the zone holds, and when that value is the detected address the
\* match of run_update calls for no upsert.
C33_FoundInAnyPage ==
    (AnsweredRead /\ ZoneMatches # {})
    => /\ ~IsNotFound(d_last.res)
       /\ \A ip \in DnsIps :
            d_listing[FirstZoneMatch].values[1] = IpToString(ip)
            => ~NeedsUpdate(d_last.res, ip)

\* the step is an update_record call that failed
FailedUpsertStep ==
    /\ pc = "upsert"
    /\ Len(calls') = Len(calls) + 1
    /\ calls'[Len(calls')].op = "upsert"
    /\ ~calls'[Len(calls')].res.ok

\* every record upserted with success in the cycle so far holds the detected
\* address, and only that, at the provider
UpdatedStayUpdated ==
    \A i \in 1..Len(config) :
        (\E k \in CallsOf(i, "upsert") : calls[k].res.ok)
        => ProviderValues(i) = << IpToString(current_ip) >>

\* C32: the records that a cycle has upserted keep the detected address; a
\* failed update_record changes nothing at the provider and ends the cycle
\* at its record; no step changes what the provider holds for another record
\* than the one in work, and the provider changes only in a successful
\* update_record. So after a failed upsert the failing record and the
\* records after it hold what they held before the cycle.
C32_NoRollbackNoFurtherWrites ==
    /\ []UpdatedStayUpdated
    /\ [][ /\ FailedUpsertStep
              => /\ zones' = zones
                 /\ idx' = idx
                 /\ pc' \in {"tick", "exit"}
                 /\ result' = calls'[Len(calls')].res
           /\ \A j \in 1..Len(config) :
                 j # idx => ProviderValues(j)' = ProviderValues(j)
           /\ zones' # zones
              => /\ pc = "upsert"
                 /\ calls'[Len(calls')].op = "upsert"
                 /\ calls'[Len(calls')].res.ok
                 /\ calls'[Len(calls')].name = config[idx].name
           /\ ~InRecordLoop(pc) => zones' = zones ]_vars

\* C32 witness: a cycle has ended at the failed upsert of its second record;
\* the first record was upserted and holds the detected address, the second
\* one holds nothing
C32_Witness ==
    /\ CycleEnded
    /\ ~result.ok
    /\ Len(config) = 2
    /\ idx = 2
    /\ \E k \in CallsOf(1, "upsert") : calls[k].res.ok
    /\ \E k \in CallsOf(2, "upsert") : ~calls[k].res.ok
    /\ ProviderValues(1) = << IpToString(current_ip) >>
    /\ ProviderValues(2) = <<>>

\* run_continuous waits at interval.tick()
AtTick == mode = "continuous" /\ pc = "tick"

\* where run_continuous waits, a tick that is due starts a cycle; one that
\* is not due comes with the passing of one period, whatever the cycle
\* before returned; the tick of the first cycle is due from the start
TickDiscipline ==
    AtTick
    => /\ elapsed => ENABLED Tick
       /\ ~elapsed => (ENABLED IntervalElapses /\ ~ENABLED Tick)
       /\ result = NoResult => elapsed

ServiceLoops ==
    /\ u_service.started
    /\ u_service.ok
    /\ ~u_service.cli.once

\* C35 (as claimed): a process that has installed and started the service
\* does not enter run_continuous itself while the service runs its loop.
C35_OneLoopPerConfiguration ==
    ServiceLoops => u_pc # "continuous"

====
